---------------------------- MODULE Spec2Model ----------------------------
(***************************************************************************)
(* Wallet Wizard: the client-side state store (appReducer), the dispatch   *)
(* wrapper (asyncDispatch), the initial load (loadData), the remote sync   *)
(* adapter (lib/database) with the hosted store behind it, the budget      *)
(* form, and the derived views (useFilteredTransactions, the aggregation   *)
(* utilities, the budget tab's spent/remaining).                           *)
(***************************************************************************)
EXTENDS Integers, Sequences, FiniteSets, TLC

(***************************************************************************)
(* Bounds of the model.                                                    *)
(***************************************************************************)
\* asyncDispatch invocations per behaviour
MaxCalls == 2
\* requests the network or the store fails per behaviour
MaxFaults == 1
\* transactions drawn for the derived-view specifications
MaxTxns == 2
\* the reference dates given to getDateRange: every day of these years
FirstYear == 2023
LastYear == 2024

NULL == "null"

Resources == {"transactions", "categories", "accounts", "budgets"}
Optimistic == {"transactions", "categories", "accounts"}

(***************************************************************************)
(* Calendar.  A Date object is [y, m, d, h]: its local calendar fields     *)
(* (m is 1..12) and local hour of day.  An ISO date string 'YYYY-MM-DD'    *)
(* is [y, m, d]; a month string 'YYYY-MM' is [y, m].                       *)
(***************************************************************************)
IsLeap(y) == (y % 4 = 0 /\ y % 100 # 0) \/ y % 400 = 0

DaysInMonth(y, m) ==
  IF m = 2 THEN (IF IsLeap(y) THEN 29 ELSE 28)
  ELSE IF m \in {4, 6, 9, 11} THEN 30 ELSE 31

\* days from y-01-01 to the first of month m
DaysBeforeMonth(y, m) ==
  <<0, 31, 59, 90, 120, 151, 181, 212, 243, 273, 304, 334>>[m]
    + (IF m > 2 /\ IsLeap(y) THEN 1 ELSE 0)

\* days from 0000-01-01 to y-01-01
DaysBeforeYear(y) ==
  365 * y + ((y + 3) \div 4) - ((y + 99) \div 100) + ((y + 399) \div 400)

Years == 2022..2026

\* the day number of year y, 0-based month index mIdx (any integer), date dt
\* (any integer): ECMAScript MakeDay, used by setDate / setMonth / setFullYear
MakeDay(y, mIdx, dt) ==
  LET ym == y * 12 + mIdx
      yy == ym \div 12
      mm == (ym % 12) + 1
  IN  DaysBeforeYear(yy) + DaysBeforeMonth(yy, mm) + dt - 1

YearOfDay(n) == CHOOSE y \in Years : DaysBeforeYear(y) <= n /\ n < DaysBeforeYear(y + 1)

MonthOfDay(n) ==
  LET y == YearOfDay(n)
      r == n - DaysBeforeYear(y)
  IN  CHOOSE m \in 1..12 : DaysBeforeMonth(y, m) <= r /\ r < DaysBeforeMonth(y, m) + DaysInMonth(y, m)

\* the calendar date of day number n
YMDOfDay(n) ==
  LET y == YearOfDay(n)
      m == MonthOfDay(n)
  IN  [y |-> y, m |-> m, d |-> n - DaysBeforeYear(y) - DaysBeforeMonth(y, m) + 1]

DayOfYMD(s) == MakeDay(s.y, s.m - 1, s.d)

\* day of week of day number n, 0 = Sunday (0000-01-01 is a Saturday)
WeekDay(n) == (n + 6) % 7

(***************************************************************************)
(* Date objects (local-time setters) and their ISO rendering.              *)
(***************************************************************************)
DateOfDay(n, h) ==
  LET s == YMDOfDay(n) IN [y |-> s.y, m |-> s.m, d |-> s.d, h |-> h]

DayOfDate(dt) == MakeDay(dt.y, dt.m - 1, dt.d)

\* Date.prototype.getDay / setDate / setMonth(month[, date]) / setFullYear
\* a day of the week that counts from Monday
getDayFromMonday(dt) == (WeekDay(DayOfDate(dt)) + 6) % 7
getDay(dt) == WeekDay(DayOfDate(dt))
setDate(dt, v) == DateOfDay(MakeDay(dt.y, dt.m - 1, v), dt.h)
setMonth(dt, mIdx) == DateOfDay(MakeDay(dt.y, mIdx, dt.d), dt.h)
\* a setMonth(month, date) whose date 0 is the first day of the month
setMonthDateFromZero(dt, mIdx, v) == DateOfDay(MakeDay(dt.y, mIdx, v + 1), dt.h)
setMonthDate(dt, mIdx, v) == DateOfDay(MakeDay(dt.y, mIdx, v), dt.h)
setFullYear(dt, y) == DateOfDay(MakeDay(y, dt.m - 1, dt.d), dt.h)

\* date.toISOString().split('T')[0] in a zone tz hours east of UTC: the UTC
\* calendar date of the instant
toISODate(dt, tz) ==
  LET n == DayOfDate(dt)
      u == dt.h - tz
      s == YMDOfDay(IF u < 0 THEN n - 1 ELSE IF u >= 24 THEN n + 1 ELSE n)
  IN  [y |-> s.y, m |-> s.m, d |-> s.d]

\* date.toISOString().slice(0, 7)
toISOMonth(dt, tz) ==
  LET s == toISODate(dt, tz) IN [y |-> s.y, m |-> s.m]

\* the empty string in a date-string field, and the time value of an Invalid Date
EmptyDate == [y |-> 0, m |-> 0, d |-> 0]
NaN == -1

\* new Date('YYYY-MM-DD').getTime(), in days: UTC midnight of that date; the
\* empty string parses to an Invalid Date
ParseDate(s) == IF s = EmptyDate THEN NaN ELSE DayOfYMD(s)

\* a < b and a > b on Date objects: false when either side is invalid
DateLess(a, b) == a # NaN /\ b # NaN /\ a < b
DateGreater(a, b) == a # NaN /\ b # NaN /\ a > b

PeriodTypes == {"daily", "weekly", "monthly", "3months", "4months", "yearly"}

getDateRange(period, baseDate) ==
  CASE period = "daily" ->
         [start |-> baseDate, end |-> baseDate]
    [] period = "weekly" ->
         LET day == getDay(baseDate)
         IN  [start |-> setDate(baseDate, baseDate.d - day),
              end |-> setDate(baseDate, baseDate.d + (6 - day))]
    [] period = "monthly" ->
         [start |-> setDate(baseDate, 1),
          end |-> setMonthDate(baseDate, (baseDate.m - 1) + 1, 0)]
    [] period = "3months" ->
         [start |-> setMonth(baseDate, (baseDate.m - 1) - 3), end |-> baseDate]
    [] period = "4months" ->
         [start |-> setMonth(baseDate, (baseDate.m - 1) - 4), end |-> baseDate]
    [] period = "yearly" ->
         [start |-> setMonthDate(baseDate, 0, 1),
          end |-> setMonthDate(baseDate, 11, 31)]
    [] OTHER ->
         [start |-> setDate(baseDate, 1),
          end |-> setMonthDate(baseDate, (baseDate.m - 1) + 1, 0)]

(***************************************************************************)
(* Sequence helpers (Array.prototype.filter / find / reduce).              *)
(***************************************************************************)
RECURSIVE FilterSeq(_, _)
\* keep the elements of s whose index is in the set keep, in order
FilterSeq(s, keep) ==
  IF s = <<>> THEN <<>>
  ELSE LET n == Len(s)
           rest == FilterSeq(SubSeq(s, 1, n - 1), keep)
       IN  IF n \in keep THEN Append(rest, s[n]) ELSE rest

Range(s) == {s[i] : i \in 1..Len(s)}

RECURSIVE SumSeq(_)
SumSeq(s) == IF s = <<>> THEN 0 ELSE s[1] + SumSeq(Tail(s))

(***************************************************************************)
(* The store state (AppState) and its reducer.                             *)
(***************************************************************************)
initialState(now) ==
  [filterState |-> [period |-> "monthly", startDate |-> EmptyDate, endDate |-> EmptyDate,
                    showTotal |-> TRUE, carryOver |-> TRUE, searchQuery |-> <<>>],
   currentPeriod |-> now,
   transactions |-> <<>>,
   categories |-> <<>>,
   accounts |-> <<>>,
   budgets |-> <<>>,
   isLoading |-> [r \in Resources |-> FALSE],
   errors |-> [r \in Resources |-> NULL]]

\* { ...filterState, ...payload }: payload is a record with some of the keys
MergeFilter(fs, payload) ==
  [k \in DOMAIN fs |-> IF k \in DOMAIN payload THEN payload[k] ELSE fs[k]]

\* a replacement that adds p when no entity has its id
UpsertById(coll, p) ==
  IF \E i \in 1..Len(coll) : coll[i].id = p.id
  THEN [i \in 1..Len(coll) |-> IF coll[i].id = p.id THEN p ELSE coll[i]]
  ELSE Append(coll, p)

ReplaceById(coll, p) == [i \in 1..Len(coll) |-> IF coll[i].id = p.id THEN p ELSE coll[i]]
\* a DELETE payload, the id alone, is carried as the record [id |-> id]
IdOnly(id) == [id |-> id]
\* the filter with its test inverted: x.id === payload
KeepById(coll, id) == FilterSeq(coll, {i \in 1..Len(coll) : coll[i].id = id})
RemoveById(coll, id) == FilterSeq(coll, {i \in 1..Len(coll) : coll[i].id # id})

\* a reducer whose SET_* actions add the list to what the collection holds
appReducerSetAppends(s, action) ==
  LET t == action.type
      p == action.payload
  IN
  CASE t = "SET_FILTER_STATE" -> [s EXCEPT !.filterState = MergeFilter(s.filterState, p)]
    [] t = "SET_CURRENT_PERIOD" -> [s EXCEPT !.currentPeriod = p]
    [] t = "SET_TRANSACTIONS" -> [s EXCEPT !.transactions = s.transactions \o p]
    [] t = "ADD_TRANSACTION" -> [s EXCEPT !.transactions = <<p>> \o s.transactions]
    [] t = "UPDATE_TRANSACTION" -> [s EXCEPT !.transactions = ReplaceById(s.transactions, p)]
    [] t = "DELETE_TRANSACTION" -> [s EXCEPT !.transactions = RemoveById(s.transactions, p.id)]
    [] t = "SET_CATEGORIES" -> [s EXCEPT !.categories = s.categories \o p]
    [] t = "ADD_CATEGORY" -> [s EXCEPT !.categories = Append(s.categories, p)]
    [] t = "UPDATE_CATEGORY" -> [s EXCEPT !.categories = ReplaceById(s.categories, p)]
    [] t = "DELETE_CATEGORY" -> [s EXCEPT !.categories = RemoveById(s.categories, p.id)]
    [] t = "SET_ACCOUNTS" -> [s EXCEPT !.accounts = s.accounts \o p]
    [] t = "ADD_ACCOUNT" -> [s EXCEPT !.accounts = Append(s.accounts, p)]
    [] t = "UPDATE_ACCOUNT" -> [s EXCEPT !.accounts = ReplaceById(s.accounts, p)]
    [] t = "DELETE_ACCOUNT" -> [s EXCEPT !.accounts = RemoveById(s.accounts, p.id)]
    [] t = "SET_BUDGETS" -> [s EXCEPT !.budgets = s.budgets \o p]
    [] t = "ADD_BUDGET" -> [s EXCEPT !.budgets = Append(s.budgets, p)]
    [] t = "UPDATE_BUDGET" -> [s EXCEPT !.budgets = ReplaceById(s.budgets, p)]
    [] t = "DELETE_BUDGET" -> [s EXCEPT !.budgets = RemoveById(s.budgets, p.id)]
    [] t = "SET_LOADING" -> [s EXCEPT !.isLoading[p.key] = p.value]
    [] t = "SET_ERROR" -> [s EXCEPT !.errors[p.key] = p.value]
    [] OTHER -> s

\* a reducer whose DELETE_CATEGORY takes the category's budgets along
appReducerCascading(s, action) ==
  LET t == action.type
      p == action.payload
  IN
  CASE t = "SET_FILTER_STATE" -> [s EXCEPT !.filterState = MergeFilter(s.filterState, p)]
    [] t = "SET_CURRENT_PERIOD" -> [s EXCEPT !.currentPeriod = p]
    [] t = "SET_TRANSACTIONS" -> [s EXCEPT !.transactions = p]
    [] t = "ADD_TRANSACTION" -> [s EXCEPT !.transactions = <<p>> \o s.transactions]
    [] t = "UPDATE_TRANSACTION" -> [s EXCEPT !.transactions = ReplaceById(s.transactions, p)]
    [] t = "DELETE_TRANSACTION" -> [s EXCEPT !.transactions = RemoveById(s.transactions, p.id)]
    [] t = "SET_CATEGORIES" -> [s EXCEPT !.categories = p]
    [] t = "ADD_CATEGORY" -> [s EXCEPT !.categories = Append(s.categories, p)]
    [] t = "UPDATE_CATEGORY" -> [s EXCEPT !.categories = ReplaceById(s.categories, p)]
    [] t = "DELETE_CATEGORY" ->
         [s EXCEPT !.categories = RemoveById(s.categories, p.id),
                   !.budgets = FilterSeq(s.budgets, {i \in 1..Len(s.budgets) :
                                                       s.budgets[i].category_id # p.id})]
    [] t = "SET_ACCOUNTS" -> [s EXCEPT !.accounts = p]
    [] t = "ADD_ACCOUNT" -> [s EXCEPT !.accounts = Append(s.accounts, p)]
    [] t = "UPDATE_ACCOUNT" -> [s EXCEPT !.accounts = ReplaceById(s.accounts, p)]
    [] t = "DELETE_ACCOUNT" -> [s EXCEPT !.accounts = RemoveById(s.accounts, p.id)]
    [] t = "SET_BUDGETS" -> [s EXCEPT !.budgets = p]
    [] t = "ADD_BUDGET" -> [s EXCEPT !.budgets = Append(s.budgets, p)]
    [] t = "UPDATE_BUDGET" -> [s EXCEPT !.budgets = ReplaceById(s.budgets, p)]
    [] t = "DELETE_BUDGET" -> [s EXCEPT !.budgets = RemoveById(s.budgets, p.id)]
    [] t = "SET_LOADING" -> [s EXCEPT !.isLoading[p.key] = p.value]
    [] t = "SET_ERROR" -> [s EXCEPT !.errors[p.key] = p.value]
    [] OTHER -> s

appReducer(s, action) ==
  LET t == action.type
      p == action.payload
  IN
  CASE t = "SET_FILTER_STATE" -> [s EXCEPT !.filterState = MergeFilter(s.filterState, p)]
    [] t = "SET_CURRENT_PERIOD" -> [s EXCEPT !.currentPeriod = p]
    [] t = "SET_TRANSACTIONS" -> [s EXCEPT !.transactions = p]
    [] t = "ADD_TRANSACTION" -> [s EXCEPT !.transactions = <<p>> \o s.transactions]
    [] t = "UPDATE_TRANSACTION" -> [s EXCEPT !.transactions = ReplaceById(s.transactions, p)]
    [] t = "DELETE_TRANSACTION" -> [s EXCEPT !.transactions = RemoveById(s.transactions, p.id)]
    [] t = "SET_CATEGORIES" -> [s EXCEPT !.categories = p]
    [] t = "ADD_CATEGORY" -> [s EXCEPT !.categories = Append(s.categories, p)]
    [] t = "UPDATE_CATEGORY" -> [s EXCEPT !.categories = ReplaceById(s.categories, p)]
    [] t = "DELETE_CATEGORY" -> [s EXCEPT !.categories = RemoveById(s.categories, p.id)]
    [] t = "SET_ACCOUNTS" -> [s EXCEPT !.accounts = p]
    [] t = "ADD_ACCOUNT" -> [s EXCEPT !.accounts = Append(s.accounts, p)]
    [] t = "UPDATE_ACCOUNT" -> [s EXCEPT !.accounts = ReplaceById(s.accounts, p)]
    [] t = "DELETE_ACCOUNT" -> [s EXCEPT !.accounts = RemoveById(s.accounts, p.id)]
    [] t = "SET_BUDGETS" -> [s EXCEPT !.budgets = p]
    [] t = "ADD_BUDGET" -> [s EXCEPT !.budgets = Append(s.budgets, p)]
    [] t = "UPDATE_BUDGET" -> [s EXCEPT !.budgets = ReplaceById(s.budgets, p)]
    [] t = "DELETE_BUDGET" -> [s EXCEPT !.budgets = RemoveById(s.budgets, p.id)]
    [] t = "SET_LOADING" -> [s EXCEPT !.isLoading[p.key] = p.value]
    [] t = "SET_ERROR" -> [s EXCEPT !.errors[p.key] = p.value]
    [] OTHER -> s

Act(t, p) == [type |-> t, payload |-> p]

\* the resource an action type is about, and its kind
ResourceOf(t) ==
  CASE t \in {"SET_TRANSACTIONS", "ADD_TRANSACTION", "UPDATE_TRANSACTION", "DELETE_TRANSACTION"} -> "transactions"
    [] t \in {"SET_CATEGORIES", "ADD_CATEGORY", "UPDATE_CATEGORY", "DELETE_CATEGORY"} -> "categories"
    [] t \in {"SET_ACCOUNTS", "ADD_ACCOUNT", "UPDATE_ACCOUNT", "DELETE_ACCOUNT"} -> "accounts"
    [] t \in {"SET_BUDGETS", "ADD_BUDGET", "UPDATE_BUDGET", "DELETE_BUDGET"} -> "budgets"
    [] OTHER -> NULL

AddTypes == {"ADD_TRANSACTION", "ADD_CATEGORY", "ADD_ACCOUNT", "ADD_BUDGET"}
UpdateTypes == {"UPDATE_TRANSACTION", "UPDATE_CATEGORY", "UPDATE_ACCOUNT", "UPDATE_BUDGET"}
DeleteTypes == {"DELETE_TRANSACTION", "DELETE_CATEGORY", "DELETE_ACCOUNT", "DELETE_BUDGET"}
BudgetMutations == {"ADD_BUDGET", "UPDATE_BUDGET", "DELETE_BUDGET"}
Mutations == AddTypes \cup UpdateTypes \cup DeleteTypes

AddType(r) == CHOOSE t \in AddTypes : ResourceOf(t) = r
UpdateType(r) == CHOOSE t \in UpdateTypes : ResourceOf(t) = r
DeleteType(r) == CHOOSE t \in DeleteTypes : ResourceOf(t) = r
SetType(r) ==
  CASE r = "transactions" -> "SET_TRANSACTIONS"
    [] r = "categories" -> "SET_CATEGORIES"
    [] r = "accounts" -> "SET_ACCOUNTS"
    [] r = "budgets" -> "SET_BUDGETS"

(***************************************************************************)
(* Values.  Text that is searched or sorted (names, notes, the search      *)
(* query) is a sequence of characters; identifiers are positive integers   *)
(* (0 is the empty identifier ''); an optional value is None or Some(v).   *)
(***************************************************************************)
None == [none |-> TRUE]
Some(v) == [some |-> v]
IsSome(o) == "some" \in DOMAIN o

Food == <<"F", "o", "o", "d">>
Salary == <<"S", "a", "l", "a", "r", "y">>
Cash == <<"C", "a", "s", "h">>
Bank == <<"B", "a", "n", "k">>

Mar2024 == [y |-> 2024, m |-> 3]
Apr2024 == [y |-> 2024, m |-> 4]

Upper == <<"A", "B", "C", "D", "E", "F", "G", "H", "I", "J", "K", "L", "M",
           "N", "O", "P", "Q", "R", "S", "T", "U", "V", "W", "X", "Y", "Z">>
Lower == <<"a", "b", "c", "d", "e", "f", "g", "h", "i", "j", "k", "l", "m",
           "n", "o", "p", "q", "r", "s", "t", "u", "v", "w", "x", "y", "z">>

\* String.prototype.toLowerCase, per character and per string
LowerChar(c) ==
  IF \E i \in 1..26 : Upper[i] = c THEN Lower[CHOOSE i \in 1..26 : Upper[i] = c] ELSE c
toLowerCase(str) == [i \in 1..Len(str) |-> LowerChar(str[i])]

\* String.prototype.includes
includes(str, q) ==
  \E i \in 0..(Len(str) - Len(q)) : \A j \in 1..Len(q) : str[i + j] = q[j]

\* the store's text ordering (ORDER BY name): by character code, shorter first
CharCode(c) ==
  IF \E i \in 1..26 : Upper[i] = c THEN 64 + (CHOOSE i \in 1..26 : Upper[i] = c)
  ELSE IF \E i \in 1..26 : Lower[i] = c THEN 96 + (CHOOSE i \in 1..26 : Lower[i] = c)
  ELSE 32

RECURSIVE TextLeq(_, _)
TextLeq(a, b) ==
  IF a = <<>> THEN TRUE
  ELSE IF b = <<>> THEN FALSE
  ELSE IF CharCode(a[1]) # CharCode(b[1]) THEN CharCode(a[1]) < CharCode(b[1])
  ELSE TextLeq(Tail(a), Tail(b))

(***************************************************************************)
(* The hosted store: one table per resource, a set of rows.  Budgets rows  *)
(* carry budget_limit and reference categories(id) ON DELETE CASCADE; the  *)
(* primary key of every table is id.                                       *)
(***************************************************************************)
Ids(rows) == {row.id : row \in rows}
SeqIds(coll) == {coll[i].id : i \in 1..Len(coll)}

StoreOk(st, data) == [store |-> st, data |-> data, error |-> None]
StoreErr(st, e) == [store |-> st, data |-> None, error |-> Some(e)]

\* the error objects the client library reports or throws
PgError == [message |-> "database error", details |-> NULL]
NoRowsError == [message |-> "JSON object requested, multiple (or no) rows returned", details |-> NULL]
ThrownError == [message |-> NULL, details |-> NULL]

\* .insert(row).select(): primary key and foreign key are checked
StoreInsert(st, r, row) ==
  IF row.id \in Ids(st[r]) THEN StoreErr(st, PgError)
  ELSE IF r = "budgets" /\ row.category_id \notin Ids(st.categories) THEN StoreErr(st, PgError)
  ELSE StoreOk([st EXCEPT ![r] = @ \cup {row}], Some(row))

\* .update(patch).eq('id', id).select(): the columns named in patch are set
\* on the row with that id; data is the updated row, if any
StoreUpdate(st, r, id, patch) ==
  IF id \notin Ids(st[r]) THEN StoreOk(st, None)
  ELSE LET old == CHOOSE x \in st[r] : x.id = id
           row == [k \in DOMAIN old |-> IF k \in DOMAIN patch THEN patch[k] ELSE old[k]]
       IN  IF r = "budgets" /\ row.category_id \notin Ids(st.categories)
           THEN StoreErr(st, PgError)
           ELSE IF row.id # id /\ row.id \in Ids(st[r]) THEN StoreErr(st, PgError)
           ELSE StoreOk([st EXCEPT ![r] = {x \in @ : x.id # id} \cup {row}], Some(row))

\* .delete().eq('id', id): deleting a category cascades to its budgets
StoreDelete(st, r, id) ==
  LET st1 == [st EXCEPT ![r] = {x \in @ : x.id # id}]
  IN  StoreOk(IF r = "categories"
              THEN [st1 EXCEPT !.budgets = {b \in @ : b.category_id # id}]
              ELSE st1, None)

\* ORDER BY: date descending, name ascending, name ascending, month descending
RowBefore(r, a, b) ==
  CASE r = "transactions" -> DayOfYMD(a.date) >= DayOfYMD(b.date)
    [] r = "categories" -> TextLeq(a.name, b.name)
    [] r = "accounts" -> TextLeq(a.name, b.name)
    [] r = "budgets" -> a.month.y * 12 + a.month.m >= b.month.y * 12 + b.month.m

\* .select('*').order(...): every listing of the table that respects the order
StoreSelect(st, r) ==
  LET rows == st[r]
      n == Cardinality(rows)
  IN  {f \in [1..n -> rows] :
         /\ \A i, j \in 1..n : i # j => f[i] # f[j]
         /\ \A i, j \in 1..n : i < j => RowBefore(r, f[i], f[j])}

(***************************************************************************)
(* The remote sync adapter (lib/database.ts over lib/supabase.ts).         *)
(***************************************************************************)
Truthy(str) == str # NULL /\ str # ""

\* the operation names the adapter passes to handleSupabaseError
Singular(r) ==
  CASE r = "transactions" -> "transaction"
    [] r = "categories" -> "category"
    [] r = "accounts" -> "account"
    [] r = "budgets" -> "budget"
Operation(verb, r) == <<verb, IF verb = "fetching" THEN r ELSE Singular(r)>>

\* `An error occurred during ${operation}. Please try again.`
DefaultMessage(operation) ==
  CASE operation = <<"fetching", "transactions">> -> "An error occurred during fetching transactions. Please try again."
    [] operation = <<"creating", "transaction">> -> "An error occurred during creating transaction. Please try again."
    [] operation = <<"updating", "transaction">> -> "An error occurred during updating transaction. Please try again."
    [] operation = <<"deleting", "transaction">> -> "An error occurred during deleting transaction. Please try again."
    [] operation = <<"fetching", "categories">> -> "An error occurred during fetching categories. Please try again."
    [] operation = <<"creating", "category">> -> "An error occurred during creating category. Please try again."
    [] operation = <<"updating", "category">> -> "An error occurred during updating category. Please try again."
    [] operation = <<"deleting", "category">> -> "An error occurred during deleting category. Please try again."
    [] operation = <<"fetching", "accounts">> -> "An error occurred during fetching accounts. Please try again."
    [] operation = <<"creating", "account">> -> "An error occurred during creating account. Please try again."
    [] operation = <<"updating", "account">> -> "An error occurred during updating account. Please try again."
    [] operation = <<"deleting", "account">> -> "An error occurred during deleting account. Please try again."
    [] operation = <<"fetching", "budgets">> -> "An error occurred during fetching budgets. Please try again."
    [] operation = <<"creating", "budget">> -> "An error occurred during creating budget. Please try again."
    [] operation = <<"updating", "budget">> -> "An error occurred during updating budget. Please try again."
    [] operation = <<"deleting", "budget">> -> "An error occurred during deleting budget. Please try again."

\* the error's own message and nothing else
handleSupabaseErrorMessageOnly(error, operation) == error.message

handleSupabaseError(error, operation) ==
  IF Truthy(error.message) THEN error.message
  ELSE IF Truthy(error.details) THEN error.details
  ELSE DefaultMessage(operation)

\* the adapter only ever passes a string or null as error
formatResponse(data, error) ==
  IF Truthy(error) THEN [data |-> None, error |-> error, thrown |-> FALSE]
  ELSE [data |-> data, error |-> NULL, thrown |-> FALSE]

\* a lookup that gives an anonymous id when nobody is signed in
getCurrentUserIdOrAnonymous(session) == IF session = NULL THEN "anonymous" ELSE session

\* supabase.auth.getUser(): the signed-in user's id, or null
getCurrentUserId(session) == session

\* what the network and the store do to one request
Faults == {"none", "error", "exception"}

\* The skeleton every adapter function shares: no user -> 'User not
\* authenticated' without a request; a thrown exception or an error result
\* -> handleSupabaseError; otherwise the mapped data.  out is the store's
\* answer to the request.
AdapterCall(st, session, fault, operation, out, mapped) ==
  IF getCurrentUserId(session) = NULL
    THEN [store |-> st, resp |-> formatResponse(None, "User not authenticated")]
  ELSE IF fault = "exception"
    THEN [store |-> st, resp |-> formatResponse(None, handleSupabaseError(ThrownError, operation))]
  ELSE IF fault = "error"
    THEN [store |-> st, resp |-> formatResponse(None, handleSupabaseError(PgError, operation))]
  ELSE IF IsSome(out.error)
    THEN [store |-> st, resp |-> formatResponse(None, handleSupabaseError(out.error.some, operation))]
  ELSE [store |-> out.store, resp |-> formatResponse(mapped, NULL)]

\* { ...budget, limit: budget.budget_limit, spent: budget.spent || 0,
\*   remaining: (budget.budget_limit || 0) - (budget.spent || 0) }
MapBudget(row) ==
  [id |-> row.id, category_id |-> row.category_id, budget_limit |-> row.budget_limit,
   month |-> row.month, limit |-> row.budget_limit, spent |-> 0,
   remaining |-> row.budget_limit - 0]

\* data?.map(budget => ...)
MapBudgets(rows) == [i \in 1..Len(rows) |-> MapBudget(rows[i])]

\* fetchTransactions / fetchCategories / fetchAccounts / fetchBudgets; listing
\* is the order in which the store returns the rows
dbFetch(r, st, session, fault, listing) ==
  AdapterCall(st, session, fault, Operation("fetching", r), StoreOk(st, None),
              Some(IF r = "budgets" THEN MapBudgets(listing) ELSE listing))

\* createTransaction / createCategory / createAccount: the payload, id
\* included, is the inserted row; .single() returns it
dbCreate(r, payload, st, session, fault) ==
  LET out == StoreInsert(st, r, payload)
  IN  AdapterCall(st, session, fault, Operation("creating", r), out, out.data)

\* updateTransaction / updateCategory / updateAccount; .single() reports an
\* error when no row has that id
dbUpdate(r, id, updates, st, session, fault) ==
  LET upd == StoreUpdate(st, r, id, updates)
      out == IF ~IsSome(upd.error) /\ ~IsSome(upd.data) THEN StoreErr(st, NoRowsError) ELSE upd
  IN  AdapterCall(st, session, fault, Operation("updating", r), out, out.data)

\* deleteTransaction / deleteCategory / deleteAccount / deleteBudget
dbDelete(r, id, st, session, fault) ==
  AdapterCall(st, session, fault, Operation("deleting", r), StoreDelete(st, r, id), None)

\* createBudget: only category_id, budget_limit and month are sent, the store
\* assigns the id (newId); .maybeSingle()
createBudget(budget, st, session, fault, newId) ==
  LET row == [id |-> newId, category_id |-> budget.category_id,
              budget_limit |-> budget.limit, month |-> budget.month]
      out == StoreInsert(st, "budgets", row)
  IN  AdapterCall(st, session, fault, Operation("creating", "budgets"), out,
                  IF IsSome(out.data) THEN Some(MapBudget(out.data.some)) ELSE None)

\* updateBudget: limit is sent as budget_limit, with category_id and month when
\* defined; .maybeSingle() gives null data when no row has that id
updateBudget(id, updates, st, session, fault) ==
  LET updateData ==
        [k \in ({"budget_limit"} \cap (IF "limit" \in DOMAIN updates THEN {"budget_limit"} ELSE {}))
               \cup ({"category_id", "month"} \cap DOMAIN updates) |->
           IF k = "budget_limit" THEN updates.limit ELSE updates[k]]
      out == StoreUpdate(st, "budgets", id, updateData)
  IN  AdapterCall(st, session, fault, Operation("updating", "budgets"), out,
                  IF IsSome(out.data) THEN Some(MapBudget(out.data.some)) ELSE None)

(***************************************************************************)
(* The derived views.                                                      *)
(***************************************************************************)
\* state.currentPeriod.toISOString().slice(0, 7)
selectedMonth(s, tz) == toISOMonth(s.currentPeriod, tz)

\* state.categories.find(c => c.id === id)?.name || ''
CategoryName(s, id) ==
  IF \E i \in 1..Len(s.categories) : s.categories[i].id = id
  THEN s.categories[CHOOSE i \in 1..Len(s.categories) :
                      /\ s.categories[i].id = id
                      /\ \A j \in 1..(i - 1) : s.categories[j].id # id].name
  ELSE <<>>

\* the budgets listed for the selected month
ShownBudgets(s, tz) ==
  FilterSeq(s.budgets, {i \in 1..Len(s.budgets) : s.budgets[i].month = selectedMonth(s, tz)})

\* the filter with the two ends of the date range left out
keepTransactionExclusive(transaction, filterState) ==
  LET transactionDate == ParseDate(transaction.date)
      startDate == ParseDate(filterState.startDate)
      endDate == ParseDate(filterState.endDate)
  IN  IF ~DateGreater(transactionDate, startDate) \/ ~DateLess(transactionDate, endDate)
      THEN FALSE
      ELSE IF filterState.searchQuery # <<>>
      THEN LET query == toLowerCase(filterState.searchQuery)
           IN  \/ (IsSome(transaction.note) /\ includes(toLowerCase(transaction.note.some), query))
               \/ includes(toLowerCase(transaction.category), query)
      ELSE TRUE

\* the callback of useFilteredTransactions' filter
keepTransaction(transaction, filterState) ==
  LET transactionDate == ParseDate(transaction.date)
      startDate == ParseDate(filterState.startDate)
      endDate == ParseDate(filterState.endDate)
  IN  IF DateLess(transactionDate, startDate) \/ DateGreater(transactionDate, endDate)
      THEN FALSE
      ELSE IF filterState.searchQuery # <<>>
      THEN LET query == toLowerCase(filterState.searchQuery)
               matchesNote == IF IsSome(transaction.note)
                              THEN includes(toLowerCase(transaction.note.some), query)
                              ELSE FALSE
               matchesCategory == includes(toLowerCase(transaction.category), query)
           IN  matchesNote \/ matchesCategory
      ELSE TRUE

useFilteredTransactions(s) ==
  FilterSeq(s.transactions,
            {i \in 1..Len(s.transactions) : keepTransaction(s.transactions[i], s.filterState)})

Amounts(transactions) == [i \in 1..Len(transactions) |-> transactions[i].amount]
OfType(transactions, type) ==
  FilterSeq(transactions, {i \in 1..Len(transactions) : transactions[i].type = type})

\* a balance that takes a transfer for money spent
RECURSIVE calculateBalanceTransfersSpent(_)
calculateBalanceTransfersSpent(transactions) ==
  IF transactions = <<>> THEN 0
  ELSE LET n == Len(transactions)
           balance == calculateBalanceTransfersSpent(SubSeq(transactions, 1, n - 1))
           transaction == transactions[n]
       IN  IF transaction.type = "income" THEN balance + transaction.amount
           ELSE balance - transaction.amount

RECURSIVE calculateBalance(_)
calculateBalance(transactions) ==
  IF transactions = <<>> THEN 0
  ELSE LET n == Len(transactions)
           balance == calculateBalance(SubSeq(transactions, 1, n - 1))
           transaction == transactions[n]
       IN  IF transaction.type = "income" THEN balance + transaction.amount
           ELSE IF transaction.type = "expense" THEN balance - transaction.amount
           ELSE balance

calculateTotalIncome(transactions) == SumSeq(Amounts(OfType(transactions, "income")))
calculateTotalExpenses(transactions) == SumSeq(Amounts(OfType(transactions, "expense")))

\* BudgetTab.calculateBudgetSpent, over the tab's filteredTransactions
calculateBudgetSpent(filteredTransactions, categoryName) ==
  SumSeq(Amounts(FilterSeq(filteredTransactions,
                           {i \in 1..Len(filteredTransactions) :
                              /\ filteredTransactions[i].type = "expense"
                              /\ filteredTransactions[i].category = categoryName})))

\* BudgetTab.budgetsWithSpent
budgetsWithSpent(s, tz) ==
  LET shown == ShownBudgets(s, tz)
      filteredTransactions == useFilteredTransactions(s)
  IN  [i \in 1..Len(shown) |->
         LET budget == shown[i]
             name == CategoryName(s, budget.category_id)
             limit == budget.limit
             spent == calculateBudgetSpent(filteredTransactions, name)
         IN  [id |-> budget.id, category_id |-> budget.category_id, month |-> budget.month,
              category_name |-> name, limit |-> limit, spent |-> spent,
              remaining |-> limit - spent]]

\* balances that count every filtered transaction for every account
accountsWithBalancesAnyAccount(s) ==
  LET allTransactions == useFilteredTransactions(s)
  IN  [i \in 1..Len(s.accounts) |->
         [id |-> s.accounts[i].id, name |-> s.accounts[i].name,
          initial_balance |-> s.accounts[i].initial_balance,
          current_balance |-> s.accounts[i].initial_balance + calculateBalance(allTransactions)]]

\* AccountsTab.accountsWithBalances, over the tab's filtered transactions
accountsWithBalances(s) ==
  LET allTransactions == useFilteredTransactions(s)
  IN  [i \in 1..Len(s.accounts) |->
         LET account == s.accounts[i]
             accountTransactions ==
               FilterSeq(allTransactions, {j \in 1..Len(allTransactions) :
                                             allTransactions[j].account = account.name})
             balance == account.initial_balance + calculateBalance(accountTransactions)
         IN  [id |-> account.id, name |-> account.name,
              initial_balance |-> account.initial_balance, current_balance |-> balance]]

(***************************************************************************)
(* The state of the running application.                                   *)
(***************************************************************************)
VARIABLES
  state,    \* AppState, the useReducer state of AppProvider
  store,    \* the hosted store's tables
  calls,    \* the asyncDispatch invocations, in dispatch order
  load,     \* the position of loadData
  nextId,   \* the next identifier generateId / the store hands out
  env,      \* the session's user, time zone and clock
  dialog,   \* BudgetTab: isBudgetDialogOpen and selectedBudget
  alert,    \* the window.alert on screen, if any: it blocks the page
  faults,   \* the requests the network or the store has failed so far
  activeTab, \* AppContent's activeTab
  view      \* what the derived views last rendered

vars == <<state, store, calls, load, nextId, env, dialog, alert, faults, activeTab, view>>

NoResp == [data |-> None, error |-> NULL, thrown |-> FALSE]

LoadOrder == <<"transactions", "categories", "accounts", "budgets">>

\* rows of a user who has used the application before
SeedStore ==
  [transactions |-> {[id |-> 1, amount |-> 50, type |-> "expense", category |-> Food,
                      account |-> Cash, date |-> [y |-> 2024, m |-> 3, d |-> 15], note |-> None]},
   categories |-> {[id |-> 2, name |-> Food, type |-> "expense"]},
   accounts |-> {[id |-> 3, name |-> Cash, initial_balance |-> 100]},
   budgets |-> {[id |-> 4, category_id |-> 2, budget_limit |-> 200, month |-> Mar2024]}]

EmptyStore == [r \in Resources |-> {}]

FirstFreeId == 5

\* the clock when the page is opened: 15 March 2024, noon, in UTC
Noon == [y |-> 2024, m |-> 3, d |-> 15, h |-> 12]

ClosedDialog == [open |-> FALSE, budget |-> None]

NoView == [rendered |-> FALSE]

\* the tabs that dispatch mutations
DataTabs == {"records", "budget", "accounts", "categories"}

\* the tab that lists resource r
TabOf(r) ==
  CASE r = "transactions" -> "records"
    [] r = "categories" -> "categories"
    [] r = "accounts" -> "accounts"
    [] r = "budgets" -> "budget"

Init ==
  /\ env \in [session : {NULL, "user-1"}, tz : {0}, now : {Noon}]
  /\ state = initialState(env.now)
  /\ store \in {EmptyStore, SeedStore}
  /\ calls = <<>>
  /\ load = [pc |-> "init", r |-> "transactions", stage |-> "idle", resp |-> NoResp]
  /\ nextId = FirstFreeId
  /\ dialog = ClosedDialog
  /\ alert = None
  /\ faults = 0
  /\ activeTab = "records"
  /\ view = NoView

(***************************************************************************)
(* AppProvider's effects.                                                  *)
(***************************************************************************)
\* an effect that takes every period kind for 'monthly'
DateRangeEffectMonthly(s, tz) ==
  LET range == getDateRange("monthly", s.currentPeriod)
  IN  appReducer(s, Act("SET_FILTER_STATE",
                        [startDate |-> toISODate(range.start, tz),
                         endDate |-> toISODate(range.end, tz)]))

\* the date-range effect (AppContext.tsx 336-345)
DateRangeEffect(s, tz) ==
  LET range == getDateRange(s.filterState.period, s.currentPeriod)
  IN  appReducer(s, Act("SET_FILTER_STATE",
                        [startDate |-> toISODate(range.start, tz),
                         endDate |-> toISODate(range.end, tz)]))

SetLoading(s, key, value) == appReducer(s, Act("SET_LOADING", [key |-> key, value |-> value]))
SetError(s, key, value) == appReducer(s, Act("SET_ERROR", [key |-> key, value |-> value]))

\* Mounting the provider: loadData runs up to its first await (loading flag,
\* fetchTransactions issued), then the date-range effect runs.
Mount ==
  /\ alert = None
  /\ load.pc = "init"
  /\ state' = DateRangeEffect(SetLoading(state, "transactions", TRUE), env.tz)
  /\ load' = [pc |-> "fetching", r |-> "transactions", stage |-> "sent", resp |-> NoResp]
  /\ UNCHANGED <<store, calls, nextId, env, dialog, alert, faults, activeTab, view>>

\* the faults a request can still meet, and the count after it met one (a
\* request that is never sent, for want of a user, meets none)
FaultsLeft(n) == IF n < MaxFaults THEN Faults ELSE {"none"}
Injected(n, session, fault) == IF fault # "none" /\ session # NULL THEN n + 1 ELSE n

\* The fetch of loadData's current resource runs in the adapter.
FetchServe ==
  /\ load.pc = "fetching" /\ load.stage = "sent"
  /\ \E fault \in FaultsLeft(faults), listing \in StoreSelect(store, load.r) :
       /\ load' = [load EXCEPT !.stage = "served",
                               !.resp = dbFetch(load.r, store, env.session, fault, listing).resp]
       /\ faults' = Injected(faults, env.session, fault)
  /\ UNCHANGED <<state, store, calls, nextId, env, dialog, alert, activeTab, view>>

\* lines 272-280 (and the three copies): the result of one fetch
LoadResult(s, r, resp) ==
  IF Truthy(resp.error) THEN SetError(s, r, resp.error)
  ELSE IF IsSome(resp.data) THEN appReducer(s, Act(SetType(r), resp.data.some))
  ELSE s

\* a finally block that clears the flag of the last resource only
LoadFinallyLastOnly(s) == SetLoading(s, "budgets", FALSE)

\* the finally block
LoadFinally(s) ==
  SetLoading(SetLoading(SetLoading(SetLoading(s, "transactions", FALSE),
                                   "categories", FALSE), "accounts", FALSE), "budgets", FALSE)

IndexOf(r) == CHOOSE i \in 1..Len(LoadOrder) : LoadOrder[i] = r

\* loadData resumes after an await: it records the result, then either
\* starts the next resource or finishes.
LoadResume ==
  /\ alert = None
  /\ load.pc = "fetching" /\ load.stage = "served"
  /\ LET s1 == LoadResult(state, load.r, load.resp)
         i == IndexOf(load.r)
     IN  IF i < Len(LoadOrder)
         THEN /\ state' = SetLoading(s1, LoadOrder[i + 1], TRUE)
              /\ load' = [pc |-> "fetching", r |-> LoadOrder[i + 1], stage |-> "sent", resp |-> NoResp]
         ELSE /\ state' = LoadFinally(s1)
              /\ load' = [pc |-> "done", r |-> load.r, stage |-> "idle", resp |-> NoResp]
  /\ UNCHANGED <<store, calls, nextId, env, dialog, alert, faults, activeTab, view>>

(***************************************************************************)
(* asyncDispatch.                                                          *)
(***************************************************************************)
\* a wrapper that dispatches nothing before the remote call, and one that
\* dispatches every action before it
DispatchedNothing(s, action) == s
DispatchedEverything(s, action) == appReducer(s, action)

\* lines 349-354: everything but the budget mutations is dispatched at once
Dispatched(s, action) ==
  IF action.type \in BudgetMutations THEN s ELSE appReducer(s, action)

\* asyncDispatch(action) up to its await
AsyncDispatch(action) ==
  /\ Len(calls) < MaxCalls
  /\ state' = Dispatched(state, action)
  /\ calls' = Append(calls, [action |-> action, stage |-> "sent", resp |-> NoResp,
                             result |-> "pending"])

\* the adapter function asyncDispatch awaits for this action
dbCall(action, st, session, fault, newId) ==
  LET t == action.type
      p == action.payload
      r == ResourceOf(t)
  IN  CASE t = "ADD_BUDGET" -> createBudget(p, st, session, fault, newId)
        [] t = "UPDATE_BUDGET" -> updateBudget(p.id, p, st, session, fault)
        [] t \in AddTypes \ {"ADD_BUDGET"} -> dbCreate(r, p, st, session, fault)
        [] t \in UpdateTypes \ {"UPDATE_BUDGET"} -> dbUpdate(r, p.id, p, st, session, fault)
        [] t \in DeleteTypes -> dbDelete(r, p.id, st, session, fault)

\* The awaited adapter function of call k runs against the store.
AdapterServe(k) ==
  /\ calls[k].stage = "sent"
  /\ \E fault \in FaultsLeft(faults) :
       LET out == dbCall(calls[k].action, store, env.session, fault, nextId)
       IN  /\ store' = out.store
           /\ calls' = [calls EXCEPT ![k].stage = "served", ![k].resp = out.resp]
           /\ nextId' = IF calls[k].action.type = "ADD_BUDGET" /\ IsSome(out.resp.data)
                        THEN nextId + 1 ELSE nextId
           /\ faults' = Injected(faults, env.session, fault)
  /\ UNCHANGED <<state, load, env, dialog, alert, activeTab, view>>

\* the message of asyncDispatch's own catch blocks
FailedMessage(t) ==
  CASE t = "ADD_TRANSACTION" -> "Failed to create transaction"
    [] t = "UPDATE_TRANSACTION" -> "Failed to update transaction"
    [] t = "DELETE_TRANSACTION" -> "Failed to delete transaction"
    [] t = "ADD_CATEGORY" -> "Failed to create category"
    [] t = "UPDATE_CATEGORY" -> "Failed to update category"
    [] t = "DELETE_CATEGORY" -> "Failed to delete category"
    [] t = "ADD_ACCOUNT" -> "Failed to create account"
    [] t = "UPDATE_ACCOUNT" -> "Failed to update account"
    [] t = "DELETE_ACCOUNT" -> "Failed to delete account"
    [] t = "ADD_BUDGET" -> "Failed to create budget"
    [] t = "UPDATE_BUDGET" -> "Failed to update budget"
    [] t = "DELETE_BUDGET" -> "Failed to delete budget"

\* a wrapper that installs the row every successful remote call returns
CompletedInstallingRow(s, action, resp) ==
  LET t == action.type
      r == ResourceOf(t)
  IN  IF resp.thrown THEN SetError(s, r, FailedMessage(t))
      ELSE IF Truthy(resp.error) THEN SetError(s, r, resp.error)
      ELSE IF t \in AddTypes \cup UpdateTypes
        THEN (IF IsSome(resp.data) THEN appReducer(s, Act(UpdateType(r), resp.data.some)) ELSE s)
      ELSE IF t = "DELETE_BUDGET" THEN appReducer(s, Act(t, action.payload))
      ELSE s

\* a wrapper that clears the resource's error when the remote call succeeds
CompletedClearingError(s, action, resp) ==
  LET t == action.type
      r == ResourceOf(t)
  IN  IF resp.thrown THEN SetError(s, r, FailedMessage(t))
      ELSE IF Truthy(resp.error) THEN SetError(s, r, resp.error)
      ELSE SetError(IF t \in {"ADD_BUDGET", "UPDATE_BUDGET"}
                      THEN (IF IsSome(resp.data) THEN appReducer(s, Act(t, resp.data.some)) ELSE s)
                    ELSE IF t = "DELETE_BUDGET" THEN appReducer(s, Act(t, action.payload))
                    ELSE s, r, NULL)

\* lines 357-496: what asyncDispatch does with the adapter's answer
Completed(s, action, resp) ==
  LET t == action.type
      r == ResourceOf(t)
  IN  IF resp.thrown THEN SetError(s, r, FailedMessage(t))
      ELSE IF Truthy(resp.error) THEN SetError(s, r, resp.error)
      ELSE IF t \in {"ADD_BUDGET", "UPDATE_BUDGET"}
        THEN (IF IsSome(resp.data) THEN appReducer(s, Act(t, resp.data.some)) ELSE s)
      ELSE IF t = "DELETE_BUDGET" THEN appReducer(s, Act(t, action.payload))
      ELSE s

\* a call whose promise has settled: only the outcome is kept
NoAction == Act("", IdOnly(0))
Settled(result) == [action |-> NoAction, stage |-> "done", resp |-> NoResp, result |-> result]

\* asyncDispatch of call k resumes after its await and returns.
AsyncDispatchResume(k) ==
  /\ alert = None
  /\ calls[k].stage = "served"
  /\ state' = Completed(state, calls[k].action, calls[k].resp)
  /\ calls' = [calls EXCEPT ![k] = Settled("resolved")]
  /\ UNCHANGED <<store, load, nextId, env, dialog, alert, faults, activeTab, view>>

(***************************************************************************)
(* The forms and tabs that dispatch.                                       *)
(***************************************************************************)
\* what the user can enter in the transaction, category and account forms
TransactionForms ==
  {[amount |-> 50, type |-> "expense", category |-> Food, account |-> Cash,
    date |-> [y |-> 2024, m |-> 3, d |-> 15], note |-> None],
   [amount |-> 2000, type |-> "income", category |-> Salary, account |-> Cash,
    date |-> [y |-> 2024, m |-> 3, d |-> 1], note |-> None]}
CategoryForms == {[name |-> Food, type |-> "expense"], [name |-> Salary, type |-> "income"]}
AccountForms == {[name |-> Cash, initial_balance |-> 100], [name |-> Bank, initial_balance |-> 0]}

Forms(r) ==
  CASE r = "transactions" -> TransactionForms
    [] r = "categories" -> CategoryForms
    [] r = "accounts" -> AccountForms

\* { id: entity?.id || generateId(), ...data }: the onSubmit of
\* TransactionDialog, CategoryDialog and AccountDialog
WithId(data, id) == [k \in DOMAIN data \cup {"id"} |-> IF k = "id" THEN id ELSE data[k]]

\* handleSaveTransaction / handleSaveCategory / handleSaveAccount with no
\* entity selected
AddEntity(r) ==
  /\ alert = None
  /\ load.pc # "init"
  /\ activeTab = TabOf(r)
  /\ \E data \in Forms(r) : AsyncDispatch(Act(AddType(r), WithId(data, nextId)))
  /\ nextId' = nextId + 1
  /\ UNCHANGED <<store, load, env, dialog, alert, faults, activeTab, view>>

\* the same with a listed entity selected
EditEntity(r) ==
  /\ alert = None
  /\ load.pc # "init"
  /\ activeTab = TabOf(r)
  /\ \E i \in 1..Len(state[r]), data \in Forms(r) :
       AsyncDispatch(Act(UpdateType(r), WithId(data, state[r][i].id)))
  /\ UNCHANGED <<store, load, nextId, env, dialog, alert, faults, activeTab, view>>

\* handleDeleteTransaction / handleDeleteCategory / handleDeleteAccount
DeleteEntity(r) ==
  /\ alert = None
  /\ load.pc # "init"
  /\ activeTab = TabOf(r)
  /\ \E i \in 1..Len(state[r]) : AsyncDispatch(Act(DeleteType(r), IdOnly(state[r][i].id)))
  /\ UNCHANGED <<store, load, nextId, env, dialog, alert, faults, activeTab, view>>

(***************************************************************************)
(* BudgetTab and BudgetDialog.                                             *)
(***************************************************************************)
\* the category names the listed budgets cover, and the expense categories left
budgetedCategories(s, tz) ==
  {CategoryName(s, b.category_id) : b \in Range(ShownBudgets(s, tz))} \ {<<>>}
unbudgetedCategories(s, tz) ==
  FilterSeq(s.categories, {i \in 1..Len(s.categories) :
              /\ s.categories[i].type = "expense"
              /\ s.categories[i].name \notin budgetedCategories(s, tz)})

\* "Add Budget"
handleAddBudget ==
  /\ alert = None
  /\ load.pc # "init"
  /\ activeTab = "budget"
  /\ ~dialog.open
  /\ dialog' = [open |-> TRUE, budget |-> None]
  /\ UNCHANGED <<state, store, calls, load, nextId, env, alert, faults, activeTab, view>>

\* "Change Limit" on a listed budget
handleEditBudget ==
  /\ alert = None
  /\ load.pc # "init"
  /\ activeTab = "budget"
  /\ ~dialog.open
  /\ \E b \in Range(ShownBudgets(state, env.tz)) :
       dialog' = [open |-> TRUE, budget |-> Some(b)]
  /\ UNCHANGED <<state, store, calls, load, nextId, env, alert, faults, activeTab, view>>

\* "Set Budget" on an unbudgeted expense category: a placeholder budget
handleSetBudget ==
  /\ alert = None
  /\ load.pc # "init"
  /\ activeTab = "budget"
  /\ ~dialog.open
  /\ \E c \in Range(unbudgetedCategories(state, env.tz)) :
       dialog' = [open |-> TRUE,
                  budget |-> Some([id |-> 0, category_id |-> c.id, category_name |-> <<>>,
                                   limit |-> 0, spent |-> 0, remaining |-> 0,
                                   month |-> toISOMonth(env.now, env.tz)])]
  /\ UNCHANGED <<state, store, calls, load, nextId, env, alert, faults, activeTab, view>>

handleCloseDialog ==
  /\ alert = None
  /\ dialog.open
  /\ dialog' = ClosedDialog
  /\ UNCHANGED <<state, store, calls, load, nextId, env, alert, faults, activeTab, view>>

\* budget?.id is truthy
HasId(budget) == IsSome(budget) /\ budget.some.id # 0

\* state.budgets.find(b => b.category_id === category_id && b.month === month)
existingBudget(s, category_id, month) ==
  \E i \in 1..Len(s.budgets) :
    s.budgets[i].category_id = category_id /\ s.budgets[i].month = month

\* the duplicate refused in edit mode instead
RefusedWhenEditing(s, budget, data) == existingBudget(s, data.category_id, data.month) /\ HasId(budget)

\* BudgetDialog.onSubmit: the duplicate is refused in create mode
Refused(s, budget, data) == existingBudget(s, data.category_id, data.month) /\ ~HasId(budget)

\* what the limit field can hold when the form is submitted (0 is the value
\* a new budget's form starts with)
LimitInputs == {-1, 0, 100}

\* handleSubmit's validation: register('limit', { required, min: { value: 0 } })
Validates(data) == data.limit >= 0

\* the limits a dispatched budget can carry
Limits == {limit \in LimitInputs : Validates([limit |-> limit])}
Months == {Mar2024, Apr2024}

\* what the form can hold at submission: a listed expense category or the
\* value the dialog was opened with, a limit, a month
BudgetFormData(s, budget) ==
  [category_id : {s.categories[i].id : i \in {j \in 1..Len(s.categories) : s.categories[j].type = "expense"}}
                   \cup {IF IsSome(budget) THEN budget.some.category_id ELSE 0},
   limit : LimitInputs,
   month : Months]

\* handleSaveBudget: UPDATE_BUDGET whenever a budget is selected
SaveAction(budget, newBudget) ==
  IF IsSome(budget) THEN Act("UPDATE_BUDGET", newBudget) ELSE Act("ADD_BUDGET", newBudget)

\* The budget form is submitted: handleSubmit validates, then onSubmit, then
\* onSave = handleSaveBudget.  An invalid form shows its message and stays open.
SubmitBudget ==
  /\ alert = None
  /\ dialog.open
  /\ \E data \in BudgetFormData(state, dialog.budget) :
       IF ~Validates(data)
       THEN UNCHANGED <<state, calls, nextId, dialog, alert>>
       ELSE IF Refused(state, dialog.budget, data)
       THEN /\ alert' = Some([category |-> CategoryName(state, data.category_id), month |-> data.month])
            /\ UNCHANGED <<state, calls, nextId, dialog>>
       ELSE /\ AsyncDispatch(SaveAction(dialog.budget,
                               [id |-> IF HasId(dialog.budget) THEN dialog.budget.some.id ELSE nextId,
                                category_id |-> data.category_id,
                                limit |-> data.limit,
                                month |-> data.month]))
            /\ nextId' = IF HasId(dialog.budget) THEN nextId ELSE nextId + 1
            /\ dialog' = ClosedDialog
            /\ UNCHANGED alert
  /\ UNCHANGED <<store, load, env, faults, activeTab, view>>

\* the user dismisses the alert
DismissAlert ==
  /\ alert # None
  /\ alert' = None
  /\ UNCHANGED <<state, store, calls, load, nextId, env, dialog, faults, activeTab, view>>

\* handleDeleteBudget on a listed budget
DeleteBudget ==
  /\ alert = None
  /\ load.pc # "init"
  /\ activeTab = "budget"
  /\ \E b \in Range(ShownBudgets(state, env.tz)) : AsyncDispatch(Act("DELETE_BUDGET", IdOnly(b.id)))
  /\ UNCHANGED <<store, load, nextId, env, dialog, alert, faults, activeTab, view>>

\* AppContent: another tab is opened, which unmounts the tab that was open with
\* its dialog.  Tabs are changed until the first mutation is dispatched.
setActiveTab(tab) ==
  /\ alert = None
  /\ load.pc # "init"
  /\ calls = <<>>
  /\ tab # activeTab
  /\ activeTab' = tab
  /\ dialog' = ClosedDialog
  /\ view' = NoView
  /\ UNCHANGED <<state, store, calls, load, nextId, env, alert, faults>>

Next ==
  \/ Mount
  \/ \E tab \in DataTabs : setActiveTab(tab)
  \/ FetchServe
  \/ LoadResume
  \/ \E r \in Optimistic : AddEntity(r)
  \/ \E r \in Optimistic : EditEntity(r)
  \/ \E r \in Optimistic : DeleteEntity(r)
  \/ handleAddBudget
  \/ handleEditBudget
  \/ handleSetBudget
  \/ handleCloseDialog
  \/ SubmitBudget
  \/ DismissAlert
  \/ DeleteBudget
  \/ \E k \in 1..Len(calls) : AdapterServe(k)
  \/ \E k \in 1..Len(calls) : AsyncDispatchResume(k)

Spec == Init /\ [][Next]_vars

(***************************************************************************)
(* Properties of the store, the dispatch wrapper and the budget form,      *)
(* checked under Spec.                                                     *)
(***************************************************************************)
\* this step is asyncDispatch being called, and the action it is called with
IsDispatch == Len(calls') = Len(calls) + 1
Dispatching == calls'[Len(calls')].action

\* this step is the adapter answering call k, or asyncDispatch returning from it
Serves(k) == calls[k].stage = "sent" /\ calls'[k].stage = "served"
Completes(k) == calls[k].stage = "served" /\ calls'[k].stage = "done"

\* the adapter's answer is a failure
Failed(resp) == resp.thrown \/ Truthy(resp.error)

OptimisticMutations == Mutations \ BudgetMutations

\* the collection of s shows the change the action asks for
Applied(s, action) ==
  LET r == ResourceOf(action.type)
      p == action.payload
  IN  CASE action.type \in AddTypes -> \E i \in 1..Len(s[r]) : s[r][i] = p
        [] action.type \in UpdateTypes -> \A i \in 1..Len(s[r]) : s[r][i].id = p.id => s[r][i] = p
        [] action.type \in DeleteTypes -> p.id \notin SeqIds(s[r])

\* C1: an ADD/UPDATE/DELETE of a transaction, category or account shows in the
\* local collection in the very step that issues the remote call; when that
\* call fails, errors[resource] is set and every collection is left as it was
\* (no rollback).
C1_OptimisticNoRollback ==
  [][/\ (IsDispatch /\ Dispatching.type \in OptimisticMutations) =>
          /\ calls'[Len(calls')].stage = "sent"
          /\ Applied(state', Dispatching)
          /\ state' = appReducer(state, Dispatching)
     /\ \A k \in 1..Len(calls) :
          (Completes(k) /\ calls[k].action.type \in OptimisticMutations /\ Failed(calls[k].resp)) =>
            /\ state'.errors[ResourceOf(calls[k].action.type)] # NULL
            /\ \A c \in Resources : state'[c] = state[c]]_vars

\* C1's case: a created transaction whose remote call failed is still listed,
\* with the error recorded and no such row in the store
C1_Witness ==
  /\ load.pc = "done"
  /\ \E k \in 1..Len(calls) : calls[k].stage = "done"
  /\ state.errors.transactions = DefaultMessage(<<"creating", "transaction">>)
  /\ \E i \in 1..Len(state.transactions) :
       state.transactions[i].id \notin Ids(store.transactions)

\* C2: dispatching a budget mutation changes nothing locally; state.budgets
\* changes only when a budget call returns success (or the load installs the
\* fetched list); a failed budget call leaves state.budgets as it was and
\* changes errors.budgets and nothing else.
C2_BudgetsPessimistic ==
  [][/\ (IsDispatch /\ Dispatching.type \in BudgetMutations) => state' = state
     /\ \A k \in 1..Len(calls) :
          (Completes(k) /\ calls[k].action.type \in BudgetMutations /\ Failed(calls[k].resp)) =>
            /\ state'.budgets = state.budgets
            /\ state'.errors.budgets # NULL
            /\ state' = [state EXCEPT !.errors.budgets = state'.errors.budgets]
     /\ state'.budgets # state.budgets =>
          \/ load' # load
          \/ \E k \in 1..Len(calls) :
               /\ Completes(k)
               /\ calls[k].action.type \in BudgetMutations
               /\ ~Failed(calls[k].resp)]_vars

\* C2's case: a budget create failed after the load; the list is the loaded
\* one and the error is recorded
C2_Witness ==
  /\ load.pc = "done"
  /\ \E k \in 1..Len(calls) : calls[k].stage = "done"
  /\ state.errors.budgets = DefaultMessage(<<"creating", "budget">>)
  /\ Len(state.budgets) = 1
  /\ Ids(store.budgets) = SeqIds(state.budgets)

\* C3: a request of asyncDispatch that fails (no user, an error from the
\* store, an exception in the adapter) is answered with an error; the call
\* then ends with errors[R] a non-empty string for the resource R of its
\* action, the errors of the other resources as they were, and its promise
\* resolved.
C3_FailureSetsOwnError ==
  [][\A k \in 1..Len(calls) :
       /\ (Serves(k) /\ (faults' > faults \/ env.session = NULL)) => Failed(calls'[k].resp)
       /\ Completes(k) => calls'[k].result = "resolved"
       /\ (Completes(k) /\ Failed(calls[k].resp)) =>
            LET R == ResourceOf(calls[k].action.type)
            IN  /\ Truthy(state'.errors[R])
                /\ \A r \in Resources \ {R} : state'.errors[r] = state.errors[r]]_vars

\* C3's case: a category delete met an exception; only errors.categories is set
C3_Witness ==
  /\ \E k \in 1..Len(calls) : calls[k].stage = "done" /\ calls[k].result = "resolved"
  /\ state.errors.categories = DefaultMessage(<<"deleting", "category">>)
  /\ \A r \in Resources \ {"categories"} : state.errors[r] = NULL

\* C4: an update of a transaction, category or account puts its payload in the
\* local collection in the step that dispatches it, whatever calls are still
\* in flight, and no completion of an optimistic call, success or failure,
\* changes any collection: the last update dispatched is the one held.
C4_LocalOrder ==
  [][/\ (IsDispatch /\ Dispatching.type \in UpdateTypes \ {"UPDATE_BUDGET"}) =>
          LET r == ResourceOf(Dispatching.type)
          IN  /\ Len(state'[r]) = Len(state[r])
              /\ \A i \in 1..Len(state[r]) :
                   state'[r][i] = IF state[r][i].id = Dispatching.payload.id
                                  THEN Dispatching.payload ELSE state[r][i]
     /\ \A k \in 1..Len(calls) :
          (Completes(k) /\ calls[k].action.type \in OptimisticMutations) =>
            \A c \in Resources : state'[c] = state[c]]_vars

\* C4's case: two updates of one entity with different payloads; the second's
\* remote call has been answered while the first's has not, and the entity
\* holds the second's payload
C4_Witness ==
  /\ Len(calls) = 2
  /\ calls[1].action.type \in UpdateTypes \ {"UPDATE_BUDGET"}
  /\ calls[2].action.type = calls[1].action.type
  /\ calls[1].action.payload.id = calls[2].action.payload.id
  /\ calls[1].action.payload # calls[2].action.payload
  /\ calls[1].stage = "sent"
  /\ calls[2].stage = "served"
  /\ LET r == ResourceOf(calls[2].action.type)
     IN  \E i \in 1..Len(state[r]) : state[r][i] = calls[2].action.payload

\* C5: no two entities of one collection share an identifier.
C5_UniqueIds ==
  \A r \in Resources :
    \A i, j \in 1..Len(state[r]) : i # j => state[r][i].id # state[r][j].id

\* C6: state.budgets holds at most one budget for a (category_id, month) pair.
C6_OneBudgetPerPair ==
  \A i, j \in 1..Len(state.budgets) :
    i # j => ~(/\ state.budgets[i].category_id = state.budgets[j].category_id
               /\ state.budgets[i].month = state.budgets[j].month)

\* C7: in create mode (no budget with an id is being edited) no budget save is
\* dispatched for a (category_id, month) pair that state.budgets already
\* holds, and the step that refuses it (the alert comes up) leaves the state,
\* the calls, the store and the dialog as they were.
C7_DuplicateCreateRejected ==
  [][/\ (IsDispatch /\ Dispatching.type \in {"ADD_BUDGET", "UPDATE_BUDGET"} /\ ~HasId(dialog.budget)) =>
          ~existingBudget(state, Dispatching.payload.category_id, Dispatching.payload.month)
     /\ (alert = None /\ alert' # None) =>
          /\ dialog.open /\ ~HasId(dialog.budget)
          /\ \E c \in SeqIds(state.categories) \cup {0} :
               /\ existingBudget(state, c, alert'.some.month)
               /\ CategoryName(state, c) = alert'.some.category
          /\ UNCHANGED <<state, calls, store, nextId, dialog>>]_vars

\* C7's case: "Add Budget" was submitted for Food in 2024-03, which the loaded
\* list already holds; the alert is up and nothing was dispatched
C7_Witness ==
  /\ alert = Some([category |-> Food, month |-> Mar2024])
  /\ dialog = [open |-> TRUE, budget |-> None]
  /\ calls = <<>>
  /\ existingBudget(state, 2, Mar2024)

(***************************************************************************)
(* The period, month and search controls and the rendering of the          *)
(* Records and Budget tabs, over a loaded store.                           *)
(***************************************************************************)
Lunch == <<"L", "U", "N", "C", "H">>

\* the transactions a loaded list is drawn from
TxnPool ==
  {[amount |-> 50, type |-> "expense", category |-> Food, account |-> Cash,
    date |-> [y |-> 2024, m |-> 3, d |-> 15], note |-> None],
   [amount |-> 30, type |-> "expense", category |-> Food, account |-> Bank,
    date |-> [y |-> 2024, m |-> 4, d |-> 1], note |-> Some(Lunch)],
   [amount |-> 2000, type |-> "income", category |-> Salary, account |-> Cash,
    date |-> [y |-> 2024, m |-> 3, d |-> 1], note |-> Some(Lunch)],
   [amount |-> 20, type |-> "transfer", category |-> Food, account |-> Cash,
    date |-> [y |-> 2024, m |-> 3, d |-> 31], note |-> None]}

TxnLists ==
  {[i \in 1..Len(f) |-> WithId(f[i], i)] : f \in UNION {[1..n -> TxnPool] : n \in 0..MaxTxns}}

ViewCategories ==
  <<[id |-> 2, name |-> Food, type |-> "expense"], [id |-> 6, name |-> Salary, type |-> "income"]>>
ViewAccounts ==
  <<[id |-> 3, name |-> Cash, initial_balance |-> 100], [id |-> 8, name |-> Bank, initial_balance |-> 0]>>
ViewBudgetRows ==
  <<[id |-> 7, category_id |-> 2, budget_limit |-> 100, month |-> Apr2024],
    [id |-> 4, category_id |-> 2, budget_limit |-> 200, month |-> Mar2024]>>

\* what the search box can hold
Queries == {<<>>, <<"l", "u">>, <<"F", "O">>}

\* the dates the period and month controls are followed to
NavFrom == [y |-> 2024, m |-> 3, d |-> 11]
NavTo == [y |-> 2024, m |-> 4, d |-> 15]
InWindow(dt) == DayOfYMD(NavFrom) <= DayOfDate(dt) /\ DayOfDate(dt) <= DayOfYMD(NavTo)

ViewTabs == {"records", "budget", "accounts"}

ViewInit ==
  /\ env = [session |-> "user-1", tz |-> 0, now |-> Noon]
  /\ \E txns \in TxnLists :
       /\ state = DateRangeEffect([initialState(env.now) EXCEPT
                                     !.transactions = txns,
                                     !.categories = ViewCategories,
                                     !.accounts = ViewAccounts,
                                     !.budgets = MapBudgets(ViewBudgetRows)], env.tz)
       /\ store = [transactions |-> Range(txns), categories |-> Range(ViewCategories),
                   accounts |-> Range(ViewAccounts), budgets |-> Range(ViewBudgetRows)]
  /\ calls = <<>>
  /\ load = [pc |-> "done", r |-> "budgets", stage |-> "idle", resp |-> NoResp]
  /\ nextId = FirstFreeId
  /\ dialog = ClosedDialog
  /\ alert = None
  /\ faults = 0
  /\ activeTab \in ViewTabs
  /\ view = NoView

\* a dispatch of a filter or period action, followed by the date-range effect
\* and a pending re-render
Dispatch(action) ==
  /\ state' = DateRangeEffect(appReducer(state, action), env.tz)
  /\ view' = NoView
  /\ UNCHANGED <<store, calls, load, nextId, env, dialog, alert, faults>>

\* PeriodSelector
handlePeriodChange(period) ==
  /\ activeTab = "records"
  /\ period # state.filterState.period
  /\ Dispatch(Act("SET_FILTER_STATE", [period |-> period]))
  /\ UNCHANGED activeTab

\* the date handlePreviousPeriod (dir = -1) and handleNextPeriod (dir = 1) move to
ShiftPeriod(dt, period, dir) ==
  CASE period = "daily" -> setDate(dt, dt.d + dir * 1)
    [] period = "weekly" -> setDate(dt, dt.d + dir * 7)
    [] period = "monthly" -> setMonth(dt, (dt.m - 1) + dir * 1)
    [] period = "3months" -> setMonth(dt, (dt.m - 1) + dir * 3)
    [] period = "4months" -> setMonth(dt, (dt.m - 1) + dir * 4)
    [] period = "yearly" -> setFullYear(dt, dt.y + dir * 1)
    [] OTHER -> dt

handlePreviousPeriod ==
  /\ activeTab = "records"
  /\ LET newDate == ShiftPeriod(state.currentPeriod, state.filterState.period, -1)
     IN  InWindow(newDate) /\ Dispatch(Act("SET_CURRENT_PERIOD", newDate))
  /\ UNCHANGED activeTab

handleNextPeriod ==
  /\ activeTab = "records"
  /\ LET newDate == ShiftPeriod(state.currentPeriod, state.filterState.period, 1)
     IN  InWindow(newDate) /\ Dispatch(Act("SET_CURRENT_PERIOD", newDate))
  /\ UNCHANGED activeTab

\* MonthSelector
handlePreviousMonth ==
  /\ activeTab = "budget"
  /\ LET newDate == setMonth(state.currentPeriod, (state.currentPeriod.m - 1) - 1)
     IN  InWindow(newDate) /\ Dispatch(Act("SET_CURRENT_PERIOD", newDate))
  /\ UNCHANGED activeTab

handleNextMonth ==
  /\ activeTab = "budget"
  /\ LET newDate == setMonth(state.currentPeriod, (state.currentPeriod.m - 1) + 1)
     IN  InWindow(newDate) /\ Dispatch(Act("SET_CURRENT_PERIOD", newDate))
  /\ UNCHANGED activeTab

\* RecordsTab's search box
handleSearchChange(value) ==
  /\ activeTab = "records"
  /\ value # state.filterState.searchQuery
  /\ Dispatch(Act("SET_FILTER_STATE", [searchQuery |-> value]))
  /\ UNCHANGED activeTab

\* what RecordsTab, BudgetTab and AccountsTab compute when they render
RecordsView(s) ==
  LET filteredTransactions == useFilteredTransactions(s)
  IN  [rendered |-> TRUE, tab |-> "records",
       filteredTransactions |-> filteredTransactions,
       totalIncome |-> calculateTotalIncome(filteredTransactions),
       totalExpenses |-> calculateTotalExpenses(filteredTransactions),
       balance |-> calculateBalance(filteredTransactions)]
BudgetView(s, tz) ==
  [rendered |-> TRUE, tab |-> "budget", selectedMonth |-> selectedMonth(s, tz),
   budgetsWithSpent |-> budgetsWithSpent(s, tz)]

AccountsView(s) ==
  [rendered |-> TRUE, tab |-> "accounts", accountsWithBalances |-> accountsWithBalances(s)]

Render ==
  /\ ~view.rendered
  /\ view' = CASE activeTab = "records" -> RecordsView(state)
              [] activeTab = "budget" -> BudgetView(state, env.tz)
              [] activeTab = "accounts" -> AccountsView(state)
  /\ UNCHANGED <<state, store, calls, load, nextId, env, dialog, alert, faults, activeTab>>

ViewNext ==
  \/ \E tab \in ViewTabs : setActiveTab(tab)
  \/ \E period \in PeriodTypes : handlePeriodChange(period)
  \/ handlePreviousPeriod
  \/ handleNextPeriod
  \/ handlePreviousMonth
  \/ handleNextMonth
  \/ \E value \in Queries : handleSearchChange(value)
  \/ Render

ViewSpec == ViewInit /\ [][ViewNext]_vars

(***************************************************************************)
(* Properties of the derived views, checked under ViewSpec.                *)
(***************************************************************************)
\* 'YYYY-MM-DD' strings compared as text
DateStringLeq(a, b) ==
  \/ a.y < b.y
  \/ a.y = b.y /\ a.m < b.m
  \/ a.y = b.y /\ a.m = b.m /\ a.d <= b.d

\* text contains q, letter case ignored
ContainsIgnoringCase(text, q) ==
  \E i \in 0..(Len(text) - Len(q)) : \A j \in 1..Len(q) : LowerChar(text[i + j]) = LowerChar(q[j])

\* the transactions of s that the filter of s should keep
ShouldKeep(s, t) ==
  /\ DateStringLeq(s.filterState.startDate, t.date)
  /\ DateStringLeq(t.date, s.filterState.endDate)
  /\ \/ s.filterState.searchQuery = <<>>
     \/ IsSome(t.note) /\ ContainsIgnoringCase(t.note.some, s.filterState.searchQuery)
     \/ ContainsIgnoringCase(t.category, s.filterState.searchQuery)

\* C8: the rendered filteredTransactions are, in the order of
\* state.transactions, exactly the transactions dated within
\* [startDate, endDate], both ends included, that match the search query (in
\* the note or the category, letter case ignored) when there is one; with no
\* query, exactly those in the date range.
C8_FilterExact ==
  (view.rendered /\ view.tab = "records") =>
    /\ view.filteredTransactions =
         FilterSeq(state.transactions,
                   {i \in 1..Len(state.transactions) : ShouldKeep(state, state.transactions[i])})
    /\ state.filterState.searchQuery = <<>> =>
         \A i \in 1..Len(state.transactions) :
           (state.transactions[i] \in Range(view.filteredTransactions)) <=>
             /\ DateStringLeq(state.filterState.startDate, state.transactions[i].date)
             /\ DateStringLeq(state.transactions[i].date, state.filterState.endDate)

\* C8's case: a lower-case query; a transaction dated on startDate itself that
\* matches only through its upper-case note is kept, one that matches but is
\* dated after endDate is dropped
C8_Witness ==
  /\ view.rendered /\ view.tab = "records"
  /\ state.filterState.searchQuery = <<"l", "u">>
  /\ Len(state.transactions) = 2
  /\ Len(view.filteredTransactions) = 1
  /\ view.filteredTransactions[1].date = state.filterState.startDate
  /\ view.filteredTransactions[1].note = Some(Lunch)
  /\ view.filteredTransactions[1].category = Salary
  /\ \E i \in 1..2 : /\ state.transactions[i].note = Some(Lunch)
                     /\ ~DateStringLeq(state.transactions[i].date, state.filterState.endDate)

WithoutTransfers(transactions) ==
  FilterSeq(transactions, {i \in 1..Len(transactions) : transactions[i].type # "transfer"})

MonthExpenses(transactions, categoryName, month) ==
  SumSeq(Amounts(FilterSeq(transactions,
                           {i \in 1..Len(transactions) :
                              /\ transactions[i].type = "expense"
                              /\ transactions[i].category = categoryName
                              /\ transactions[i].date.y = month.y
                              /\ transactions[i].date.m = month.m})))

\* C10: every budget the Budget tab shows for the selected month has spent =
\* the sum of the expenses of its category dated in that month, whatever the
\* period kind and the search query of the filter, and remaining = limit -
\* spent.
C10_SpentIsMonthSum ==
  (view.rendered /\ view.tab = "budget") =>
    \A i \in 1..Len(view.budgetsWithSpent) :
      LET b == view.budgetsWithSpent[i]
      IN  /\ b.month = view.selectedMonth
          /\ b.spent = MonthExpenses(state.transactions, b.category_name, view.selectedMonth)
          /\ b.remaining = b.limit - b.spent

(***************************************************************************)
(* The same controls and tabs in other time zones and at other hours of    *)
(* the day, over the list {50 expense 2024-03-15, 2000 income 2024-03-01}. *)
(***************************************************************************)
\* hours east of UTC, and the local clock when the page is opened
Zones == {-5, 0, 2}
Clocks == {[Noon EXCEPT !.h = h] : h \in {1, 12, 21}}

MarchPair ==
  <<[id |-> 1, amount |-> 50, type |-> "expense", category |-> Food, account |-> Cash,
     date |-> [y |-> 2024, m |-> 3, d |-> 15], note |-> None],
    [id |-> 2, amount |-> 2000, type |-> "income", category |-> Salary, account |-> Cash,
     date |-> [y |-> 2024, m |-> 3, d |-> 1], note |-> None]>>

ZoneInit ==
  /\ env \in [session : {"user-1"}, tz : Zones, now : Clocks]
  /\ state = DateRangeEffect([initialState(env.now) EXCEPT
                                !.transactions = MarchPair,
                                !.categories = ViewCategories,
                                !.accounts = ViewAccounts,
                                !.budgets = MapBudgets(ViewBudgetRows)], env.tz)
  /\ store = [transactions |-> Range(MarchPair), categories |-> Range(ViewCategories),
              accounts |-> Range(ViewAccounts), budgets |-> Range(ViewBudgetRows)]
  /\ calls = <<>>
  /\ load = [pc |-> "done", r |-> "budgets", stage |-> "idle", resp |-> NoResp]
  /\ nextId = FirstFreeId
  /\ dialog = ClosedDialog
  /\ alert = None
  /\ faults = 0
  /\ activeTab \in ViewTabs
  /\ view = NoView

ZoneSpec == ZoneInit /\ [][ViewNext]_vars

(***************************************************************************)
(* Properties of the Records totals and the account balances.              *)
(***************************************************************************)
\* the sum of the amounts of the transactions of a type dated in a month
MonthTotal(transactions, type, month) ==
  SumSeq(Amounts(FilterSeq(transactions,
                           {i \in 1..Len(transactions) :
                              /\ transactions[i].type = type
                              /\ transactions[i].date.y = month.y
                              /\ transactions[i].date.m = month.m})))

\* C11: with period 'monthly' and the reference date in March 2024 the filter
\* range is 2024-03-01..2024-03-31, and the totals the Records tab shows (no
\* search query) are those of the transactions dated in March 2024: for the
\* list {50 expense 2024-03-15, 2000 income 2024-03-01}, income 2000, expenses
\* 50, balance 1950.
C11_MonthlyMarchTotals ==
  (/\ state.filterState.period = "monthly"
   /\ state.currentPeriod.y = 2024 /\ state.currentPeriod.m = 3) =>
    /\ state.filterState.startDate = [y |-> 2024, m |-> 3, d |-> 1]
    /\ state.filterState.endDate = [y |-> 2024, m |-> 3, d |-> 31]
    /\ (view.rendered /\ view.tab = "records" /\ state.filterState.searchQuery = <<>>) =>
         /\ view.totalIncome = MonthTotal(state.transactions, "income", Mar2024)
         /\ view.totalExpenses = MonthTotal(state.transactions, "expense", Mar2024)
         /\ view.balance = view.totalIncome - view.totalExpenses
         /\ state.transactions = MarchPair =>
              /\ view.totalIncome = 2000
              /\ view.totalExpenses = 50
              /\ view.balance = 1950

\* the sum of the amounts of the transactions of a type and an account that
\* the filter of s should keep
AccountTotal(s, name, type) ==
  SumSeq(Amounts(FilterSeq(s.transactions,
                           {i \in 1..Len(s.transactions) :
                              /\ ShouldKeep(s, s.transactions[i])
                              /\ s.transactions[i].type = type
                              /\ s.transactions[i].account = name})))

\* C12: the Accounts tab shows, for every account, current balance =
\* initial_balance + income - expenses of the filtered transactions on that
\* account (by name), and the same balances when the transfers are taken out
\* of the list.
C12_AccountBalance ==
  (view.rendered /\ view.tab = "accounts") =>
    /\ Len(view.accountsWithBalances) = Len(state.accounts)
    /\ \A i \in 1..Len(state.accounts) :
         LET a == state.accounts[i]
         IN  /\ view.accountsWithBalances[i].name = a.name
             /\ view.accountsWithBalances[i].current_balance =
                  a.initial_balance + AccountTotal(state, a.name, "income")
                                    - AccountTotal(state, a.name, "expense")
    /\ accountsWithBalances([state EXCEPT !.transactions = WithoutTransfers(@)]) =
         view.accountsWithBalances

\* C12's case: an expense and a transfer on Cash, both within the range, and
\* an expense on Bank outside it: Cash shows 100 - 50, Bank its initial 0
C12_Witness ==
  /\ view.rendered /\ view.tab = "accounts"
  /\ Len(state.transactions) = 2
  /\ \E i, j \in 1..2 :
       /\ state.transactions[i].type = "expense" /\ state.transactions[i].account = Cash
       /\ ShouldKeep(state, state.transactions[i])
       /\ state.transactions[j].type = "transfer" /\ state.transactions[j].account = Cash
       /\ ShouldKeep(state, state.transactions[j])
  /\ view.accountsWithBalances[1].name = Cash
  /\ view.accountsWithBalances[1].current_balance = 50
  /\ view.accountsWithBalances[2].current_balance = 0

(***************************************************************************)
(* Laws of the reducer, on the states the program reaches and the entities *)
(* it dispatches there.                                                    *)
(***************************************************************************)
\* how many times x is listed in coll
Count(coll, x) == Cardinality({i \in 1..Len(coll) : coll[i] = x})
\* the same members, order aside
SameMembers(a, b) == \A x \in Range(a) \cup Range(b) : Count(a, x) = Count(b, x)

\* the entities an insert action can carry next: what a submitted form of the
\* tab would dispatch, or the row a served ADD_BUDGET call is about to add
InsertCandidates(r) ==
  IF r \in Optimistic
  THEN {WithId(data, nextId) : data \in Forms(r)}
  ELSE {calls[k].resp.data.some :
          k \in {j \in 1..Len(calls) : /\ calls[j].stage = "served"
                                       /\ calls[j].action.type = "ADD_BUDGET"
                                       /\ IsSome(calls[j].resp.data)}}

\* the collection after the insert action for e and the remove action with e's id
InsertThenRemove(s, r, e) ==
  appReducer(appReducer(s, Act(AddType(r), e)), Act(DeleteType(r), IdOnly(e.id)))[r]

ReplaceCandidates(r) ==
  {IF r = "budgets" THEN MapBudgets(listing) ELSE listing : listing \in StoreSelect(store, r)}
    \cup {<<>>, state[r]}

\* C14: for each collection, SET_* with a list L applied twice gives the state
\* that applying it once gives, and after it the collection is L, whatever it
\* held before.
C14_SetIdempotent ==
  \A r \in Resources : \A L \in ReplaceCandidates(r) :
    LET once == appReducer(state, Act(SetType(r), L))
        twice == appReducer(once, Act(SetType(r), L))
    IN  /\ twice = once
        /\ once[r] = L

\* C14's case: a transaction was added to the list before the load's
\* SET_TRANSACTIONS; the list is now the fetched one, without it
C14_Witness ==
  /\ Len(calls) >= 1
  /\ calls[1].action.type = "ADD_TRANSACTION"
  /\ calls[1].stage = "sent"
  /\ calls[1].action.payload \notin Range(state.transactions)
  /\ state.transactions # <<>>
  /\ state.transactions \in StoreSelect(store, "transactions")

\* the entities an update action can carry: a submitted form for a listed
\* entity or for one that is no longer listed, or the row the store returns
\* for an updated budget
UpdateCandidates(r) ==
  IF r \in Optimistic
  THEN {WithId(data, id) : data \in Forms(r), id \in SeqIds(state[r]) \cup {nextId}}
  ELSE {MapBudget([row EXCEPT !.budget_limit = limit]) : row \in store.budgets, limit \in Limits}

\* C15: UPDATE_* with payload p puts p in the place of every entity whose id
\* is p.id and keeps every other entity, the order and the length of the
\* collection; when no entity has that id the collection is unchanged.
C15_UpdateReplaces ==
  \A r \in Resources : \A p \in UpdateCandidates(r) :
    LET before == state[r]
        after == appReducer(state, Act(UpdateType(r), p))[r]
    IN  /\ Len(after) = Len(before)
        /\ \A i \in 1..Len(before) :
             after[i] = IF before[i].id = p.id THEN p ELSE before[i]
        /\ p.id \notin SeqIds(before) => after = before

\* C15's case: of two listed categories the first was updated, the call still
\* in flight: the payload stands in its place, the second is as it was added
C15_Witness ==
  /\ Len(calls) = 2
  /\ calls[1].action.type = "ADD_CATEGORY"
  /\ calls[2].action.type = "UPDATE_CATEGORY"
  /\ calls[2].stage = "sent"
  /\ Len(state.categories) = 2
  /\ state.categories[1] = calls[2].action.payload
  /\ state.categories[1] \notin store.categories
  /\ state.categories[2] = calls[1].action.payload
  /\ state.categories[2].id # state.categories[1].id

(***************************************************************************)
(* getDateRange on its own: a period kind and a reference date are chosen, *)
(* and the date-range effect computes the range.                           *)
(***************************************************************************)
ReferenceDates ==
  {[y |-> y, m |-> m, d |-> d, h |-> Noon.h] :
     y \in FirstYear..LastYear, m \in 1..12, d \in 1..31} \cap
  {DateOfDay(n, Noon.h) : n \in DaysBeforeYear(FirstYear)..(DaysBeforeYear(LastYear + 1) - 1)}

DateInit ==
  /\ env = [session |-> "user-1", tz |-> 0, now |-> Noon]
  /\ \E period \in PeriodTypes, d \in ReferenceDates :
       state = [initialState(d) EXCEPT !.filterState.period = period]
  /\ store = EmptyStore
  /\ calls = <<>>
  /\ load = [pc |-> "done", r |-> "budgets", stage |-> "idle", resp |-> NoResp]
  /\ nextId = FirstFreeId
  /\ dialog = ClosedDialog
  /\ alert = None
  /\ faults = 0
  /\ activeTab = "records"
  /\ view = NoView

\* the date-range effect: getDateRange(period, currentPeriod), then the two
\* date strings go into the filter; the Date objects are kept for inspection
RangeEffect ==
  /\ ~view.rendered
  /\ state' = DateRangeEffect(state, env.tz)
  /\ view' = [rendered |-> TRUE, tab |-> "range",
              period |-> state.filterState.period,
              baseDate |-> state.currentPeriod,
              range |-> getDateRange(state.filterState.period, state.currentPeriod)]
  /\ UNCHANGED <<store, calls, load, nextId, env, dialog, alert, faults, activeTab>>

DateNext == RangeEffect

DateSpec == DateInit /\ [][DateNext]_vars

\* days from a known Sunday, 1 January 2023, to the local date of dt
DaysFromSunday(dt) == DayOfDate(dt) - DayOfYMD([y |-> 2023, m |-> 1, d |-> 1])

\* C16: getDateRange('weekly', d) is a range of exactly 7 consecutive days
\* that starts on a Sunday, ends on the following Saturday and contains d.
C16_WeeklyRange ==
  (view.rendered /\ view.tab = "range" /\ view.period = "weekly") =>
    LET start == view.range.start
        end == view.range.end
        d == view.baseDate
    IN  /\ DayOfDate(end) - DayOfDate(start) + 1 = 7
        /\ DaysFromSunday(start) % 7 = 0
        /\ DaysFromSunday(end) % 7 = 6
        /\ DayOfDate(start) <= DayOfDate(d) /\ DayOfDate(d) <= DayOfDate(end)
        /\ start.h = d.h /\ end.h = d.h

\* C16's case: the week of Wednesday 28 February 2024, which runs from Sunday
\* 25 February into March
C16_Witness ==
  /\ view.rendered /\ view.tab = "range" /\ view.period = "weekly"
  /\ view.baseDate = [y |-> 2024, m |-> 2, d |-> 28, h |-> Noon.h]
  /\ view.range.start = [y |-> 2024, m |-> 2, d |-> 25, h |-> Noon.h]
  /\ view.range.end = [y |-> 2024, m |-> 3, d |-> 2, h |-> Noon.h]

\* the local date of the day after dt
DayAfter(dt) == YMDOfDay(DayOfDate(dt) + 1)

\* C17: getDateRange('monthly', d) starts on the first day of d's month and
\* ends on the last day of the same month: day 28 to 31, 29 in February of a
\* leap year.
C17_MonthlyRange ==
  (view.rendered /\ view.tab = "range" /\ view.period = "monthly") =>
    LET start == view.range.start
        end == view.range.end
        d == view.baseDate
    IN  /\ start = [d EXCEPT !.d = 1]
        /\ end.y = d.y /\ end.m = d.m /\ end.h = d.h
        /\ end.d \in 28..31
        /\ DayAfter(end).d = 1
        /\ DayAfter(end).m = (d.m % 12) + 1
        /\ d.m = 2 => end.d = (IF d.y = 2024 THEN 29 ELSE 28)

\* C17's case: 10 February 2024, a leap year: 1 to 29 February
C17_Witness ==
  /\ view.rendered /\ view.tab = "range" /\ view.period = "monthly"
  /\ view.baseDate = [y |-> 2024, m |-> 2, d |-> 10, h |-> Noon.h]
  /\ view.range.start = [y |-> 2024, m |-> 2, d |-> 1, h |-> Noon.h]
  /\ view.range.end = [y |-> 2024, m |-> 2, d |-> 29, h |-> Noon.h]

\* months from January of year 0 to the month of dt
MonthNumber(dt) == dt.y * 12 + (dt.m - 1)

\* C18: getDateRange('3months', d) and getDateRange('4months', d) end on d and
\* start in the calendar month exactly 3, respectively 4, months before d's
\* month, with start <= end.
C18_MonthsBackRange ==
  (view.rendered /\ view.tab = "range" /\ view.period \in {"3months", "4months"}) =>
    LET start == view.range.start
        end == view.range.end
        d == view.baseDate
        k == IF view.period = "3months" THEN 3 ELSE 4
    IN  /\ end = d
        /\ MonthNumber(start) = MonthNumber(d) - k
        /\ DayOfDate(start) <= DayOfDate(end)

(***************************************************************************)
(* Properties of the initial load and of the adapter without a user.       *)
(***************************************************************************)
\* C19: during the initial load the flag isLoading[R] is true from before R's
\* fetch is issued until after it has completed (no flag is set before its
\* turn, none is cleared while a fetch is outstanding), and once the load has
\* finished, whether the fetches succeeded or failed, all four flags are false.
C19_LoadingFlags ==
  /\ load.pc = "init" => \A r \in Resources : ~state.isLoading[r]
  /\ load.pc = "fetching" =>
       \A r \in Resources : state.isLoading[r] <=> IndexOf(r) <= IndexOf(load.r)
  /\ load.pc = "done" => \A r \in Resources : ~state.isLoading[r]

\* C19's case: the load has finished with one fetch failed and another
\* succeeded, and no flag is left set
C19_Witness ==
  /\ load.pc = "done"
  /\ \A r \in Resources : ~state.isLoading[r]
  /\ \E r \in Resources : Truthy(state.errors[r])
  /\ \E r \in Resources : state[r] # <<>>

NotAuthenticated == formatResponse(None, "User not authenticated")

\* the mutations the wrapper can be given here: forms for new, listed or
\* stored entities, and deletions of listed or stored entities
MutationCandidates ==
  UNION {
    {Act(AddType(r), e) : e \in {WithId(data, nextId) : data \in Forms(r)}}
      \cup {Act(UpdateType(r), WithId(data, id)) :
              data \in Forms(r), id \in SeqIds(state[r]) \cup Ids(store[r])}
      \cup {Act(DeleteType(r), IdOnly(id)) : id \in SeqIds(state[r]) \cup Ids(store[r])}
    : r \in Optimistic}
  \cup {Act("ADD_BUDGET", [id |-> nextId, category_id |-> c, limit |-> l, month |-> mo]) :
          c \in Ids(store.categories), l \in Limits, mo \in Months}
  \cup {Act("UPDATE_BUDGET", [id |-> row.id, category_id |-> row.category_id, limit |-> l, month |-> mo]) :
          row \in store.budgets, l \in Limits, mo \in Months}
  \cup {Act("DELETE_BUDGET", IdOnly(id)) : id \in SeqIds(state.budgets) \cup Ids(store.budgets)}

\* C20: with no user signed in, each of the sixteen adapter operations answers
\* 'User not authenticated' and leaves the store as it is, whatever the
\* network would have done to a request; loadData and asyncDispatch put that
\* message in errors[R], as they do with the message of a failed request; and
\* in the run itself no request has reached the store or met a fault.
C20_Unauthenticated ==
  env.session = NULL =>
    /\ \A r \in Resources, fault \in Faults : \A listing \in StoreSelect(store, r) :
         LET out == dbFetch(r, store, env.session, fault, listing)
             failed == dbFetch(r, store, "user-1", "error", listing)
         IN  /\ out.store = store
             /\ out.resp = NotAuthenticated
             /\ LoadResult(state, r, out.resp) = SetError(state, r, "User not authenticated")
             /\ LoadResult(state, r, failed.resp) = SetError(state, r, failed.resp.error)
    /\ \A action \in MutationCandidates, fault \in Faults :
         LET out == dbCall(action, store, env.session, fault, nextId)
             failed == dbCall(action, store, "user-1", "error", nextId)
             r == ResourceOf(action.type)
         IN  /\ out.store = store
             /\ out.resp = NotAuthenticated
             /\ Completed(state, action, out.resp) = SetError(state, r, "User not authenticated")
             /\ Completed(state, action, failed.resp) = SetError(state, r, failed.resp.error)
    /\ store \in {EmptyStore, SeedStore}
    /\ faults = 0
    /\ load.stage = "served" => load.resp = NotAuthenticated
    /\ \A k \in 1..Len(calls) : calls[k].stage = "served" => calls[k].resp = NotAuthenticated
    /\ load.pc = "done" => \A r \in Resources : state.errors[r] = "User not authenticated"

\* C20's case: nobody is signed in, the store holds rows, the load has
\* finished with the message on all four resources, a created transaction has
\* been refused with it and a second call has been answered the same way
C20_Witness ==
  /\ env.session = NULL
  /\ store = SeedStore
  /\ load.pc = "done"
  /\ \A r \in Resources : state.errors[r] = "User not authenticated"
  /\ Len(calls) = 2
  /\ calls[1].stage = "done"
  /\ calls[2].stage = "served" /\ calls[2].resp = NotAuthenticated
  /\ Len(state.transactions) = 1

(***************************************************************************)
(* Properties of the budgets and their categories.                         *)
(***************************************************************************)
\* C21: in every reachable state every budget of state.budgets has a
\* category_id that is the id of a category of state.categories of kind
\* 'expense', whatever budget and category actions were dispatched
\* (UPDATE_CATEGORY changing the kind and DELETE_CATEGORY included).
C21_BudgetCategoryIsExpense ==
  \A i \in 1..Len(state.budgets) :
    \E j \in 1..Len(state.categories) :
      /\ state.categories[j].id = state.budgets[i].category_id
      /\ state.categories[j].type = "expense"

\* C22: every budget the form accepts and hands to asyncDispatch, for create
\* or update, has limit > 0: no call in flight carries a budget whose limit
\* is zero or less.
C22_ForwardedLimitPositive ==
  \A k \in 1..Len(calls) :
    calls[k].action.type \in {"ADD_BUDGET", "UPDATE_BUDGET"} =>
      calls[k].action.payload.limit > 0

(***************************************************************************)
(* Properties of the period controls.                                      *)
(***************************************************************************)
\* the date strings of getDateRange(period, currentPeriod) in state s
DerivedRange(s, tz) ==
  LET range == getDateRange(s.filterState.period, s.currentPeriod)
  IN  [startDate |-> toISODate(range.start, tz), endDate |-> toISODate(range.end, tz)]

\* C23: once the date-range effect has run, filterState.startDate and endDate
\* are the date strings of getDateRange(period, currentPeriod) for the current
\* period kind and reference date, and a step changes startDate or endDate
\* only if it changes the period kind or the reference date.
C23_RangeFollowsPeriod ==
  /\ [](/\ state.filterState.startDate = DerivedRange(state, env.tz).startDate
        /\ state.filterState.endDate = DerivedRange(state, env.tz).endDate)
  /\ [][(\/ state'.filterState.startDate # state.filterState.startDate
         \/ state'.filterState.endDate # state.filterState.endDate)
        => (\/ state'.filterState.period # state.filterState.period
            \/ state'.currentPeriod # state.currentPeriod)]_vars

\* C23's case: the period kind was changed to weekly and the reference date
\* moved to Friday 22 March 2024 (noon, UTC): the range is 17 to 23 March
C23_Witness ==
  /\ env.tz = 0 /\ state.currentPeriod = [y |-> 2024, m |-> 3, d |-> 22, h |-> 12]
  /\ state.filterState.period = "weekly"
  /\ state.filterState.startDate = [y |-> 2024, m |-> 3, d |-> 17]
  /\ state.filterState.endDate = [y |-> 2024, m |-> 3, d |-> 23]

(***************************************************************************)
(* Properties of the local lists while calls and the load are under way.   *)
(***************************************************************************)
\* no call has returned yet: calls holds every action dispatched so far
AllCallsKept == \A j \in 1..Len(calls) : calls[j].stage # "done"

\* C24: a transaction, category or account added by an ADD action is in its
\* list as long as no DELETE action with its id has been dispatched, however
\* the initial load and the remote calls interleave with it.
C24_AddedStays ==
  AllCallsKept =>
    \A k \in 1..Len(calls) :
      LET action == calls[k].action
          r == ResourceOf(action.type)
      IN  (/\ action.type \in AddTypes \ {"ADD_BUDGET"}
           /\ \A j \in 1..Len(calls) :
                calls[j].action # Act(DeleteType(r), IdOnly(action.payload.id)))
          => action.payload.id \in SeqIds(state[r])

(***************************************************************************)
(* The Budget tab of a signed-in user after the initial load has finished  *)
(* without error: the dialog, the calls it dispatches and their answers.   *)
(***************************************************************************)
LoadedInit ==
  /\ env = [session |-> "user-1", tz |-> 0, now |-> Noon]
  /\ store = SeedStore
  /\ \E lt \in StoreSelect(store, "transactions"), lc \in StoreSelect(store, "categories"),
        la \in StoreSelect(store, "accounts"), lb \in StoreSelect(store, "budgets") :
       state = DateRangeEffect([initialState(env.now) EXCEPT
                                  !.transactions = lt, !.categories = lc,
                                  !.accounts = la, !.budgets = MapBudgets(lb)], env.tz)
  /\ calls = <<>>
  /\ load = [pc |-> "done", r |-> "budgets", stage |-> "idle", resp |-> NoResp]
  /\ nextId = FirstFreeId
  /\ dialog = ClosedDialog
  /\ alert = None
  /\ faults = 0
  /\ activeTab = "budget"
  /\ view = NoView

BudgetNext ==
  \/ handleAddBudget
  \/ handleEditBudget
  \/ handleSetBudget
  \/ handleCloseDialog
  \/ SubmitBudget
  \/ DismissAlert
  \/ DeleteBudget
  \/ \E k \in 1..Len(calls) : AdapterServe(k)
  \/ \E k \in 1..Len(calls) : AsyncDispatchResume(k)

BudgetSpec == LoadedInit /\ [][BudgetNext]_vars

\* what the claim compares of a local budget and of a stored row
BudgetFacts(b) == [id |-> b.id, category_id |-> b.category_id, limit |-> b.budget_limit, month |-> b.month]

\* every call dispatched from the Budget tab has returned, and no error was
\* recorded
BudgetCallsSettled ==
  /\ calls # <<>>
  /\ \A k \in 1..Len(calls) : calls[k].stage = "done"
  /\ \A r \in Resources : state.errors[r] = NULL

\* C25: when every budget call has returned without error and none is in
\* flight, state.budgets and the store's budgets hold the same budgets with
\* the same limit, month and category_id, in whatever order the requests
\* reached the store and the responses were processed.
C25_BudgetsAgreeWithStore ==
  BudgetCallsSettled =>
    {BudgetFacts(b) : b \in Range(state.budgets)} = {BudgetFacts(row) : row \in store.budgets}

(***************************************************************************)
(* Properties of the recorded errors.                                      *)
(***************************************************************************)
\* C26: once errors[R] holds a message, no later step of the provider puts
\* null back: not a later successful retry of the operation, nor any other
\* successful remote call or fetch on R.
C26_ErrorNeverCleared ==
  [][\A r \in Resources : Truthy(state.errors[r]) => Truthy(state'.errors[r])]_vars

\* C26's case: of two creations of a transaction the first (id 5) was refused
\* by the store and the second (id 6) was stored; both calls have returned
\* and the message is still recorded
C26_Witness ==
  /\ Len(calls) = 2
  /\ \A k \in 1..2 : calls[k].stage = "done"
  /\ Truthy(state.errors["transactions"])
  /\ load.pc = "done"
  /\ FirstFreeId \notin Ids(store.transactions)
  /\ FirstFreeId + 1 \in Ids(store.transactions)
  /\ {FirstFreeId, FirstFreeId + 1} \subseteq SeqIds(state.transactions)

(***************************************************************************)
(* Properties of the budget dialog.                                        *)
(***************************************************************************)
\* the dialog was opened through 'Set Budget': it holds a placeholder budget
\* with the empty id
PlaceholderOpen == dialog.open /\ IsSome(dialog.budget) /\ dialog.budget.some.id = 0

\* C27: saving the dialog opened through 'Set Budget' on an unbudgeted expense
\* category dispatches a create, ADD_BUDGET, for that category (on which the
\* budget's later presence in state.budgets rests).
C27_SetBudgetCreates ==
  [][(PlaceholderOpen /\ IsDispatch) =>
       /\ Dispatching.type = "ADD_BUDGET"
       /\ Dispatching.payload.category_id \in {state.categories[i].id : i \in 1..Len(state.categories)}]_vars

\* C28: a step of MonthSelector (the reference date moves while the Budget
\* tab is open) leaves filterState.startDate and endDate, and with them the
\* filtered transactions the other tabs show, as they were.
C28_MonthSelectorKeepsFilter ==
  [][(activeTab = "budget" /\ state'.currentPeriod # state.currentPeriod) =>
       /\ state'.filterState.startDate = state.filterState.startDate
       /\ state'.filterState.endDate = state.filterState.endDate
       /\ useFilteredTransactions(state') = useFilteredTransactions(state)]_vars

(***************************************************************************)
(* The frame of the reducer, on the states the Budget tab reaches.         *)
(***************************************************************************)
\* the replace-collection actions a fetch could dispatch here
SetCandidates ==
  UNION {{Act(SetType(r), L) : L \in ReplaceCandidates(r)} : r \in Resources}

\* the flag, message, filter and period actions
LoadingCandidates ==
  {Act("SET_LOADING", [key |-> k, value |-> v]) : k \in Resources, v \in BOOLEAN}
ErrorCandidates ==
  {Act("SET_ERROR", [key |-> k, value |-> v]) :
     k \in Resources, v \in {NULL, "User not authenticated", PgError.message}}
FilterCandidates ==
  {Act("SET_FILTER_STATE", [period |-> p]) : p \in PeriodTypes}
    \cup {Act("SET_FILTER_STATE", [searchQuery |-> q]) : q \in Queries}
    \cup {Act("SET_FILTER_STATE", [startDate |-> toISODate(d, env.tz), endDate |-> toISODate(env.now, env.tz)]) :
            d \in {state.currentPeriod, env.now}}

\* s and t differ at most in the fields named in keys
SameBut(s, t, keys) ==
  /\ DOMAIN s = DOMAIN t
  /\ \A k \in DOMAIN s \ keys : s[k] = t[k]

\* C29: each reducer action changes only its target: a collection action on R
\* nothing but collection R; SET_LOADING and SET_ERROR for key K only K's
\* entry of their map; SET_FILTER_STATE only the filterState keys of its
\* payload; SET_CURRENT_PERIOD only currentPeriod; an unknown action nothing.
C29_ReducerFrame ==
  /\ \A action \in SetCandidates :
       SameBut(appReducer(state, action), state, {ResourceOf(action.type)})
  /\ \A action \in MutationCandidates :
       SameBut(appReducer(state, action), state, {ResourceOf(action.type)})
  /\ \A action \in LoadingCandidates :
       LET after == appReducer(state, action)
       IN  /\ SameBut(after, state, {"isLoading"})
           /\ SameBut(after.isLoading, state.isLoading, {action.payload.key})
           /\ after.isLoading[action.payload.key] = action.payload.value
  /\ \A action \in ErrorCandidates :
       LET after == appReducer(state, action)
       IN  /\ SameBut(after, state, {"errors"})
           /\ SameBut(after.errors, state.errors, {action.payload.key})
           /\ after.errors[action.payload.key] = action.payload.value
  /\ \A action \in FilterCandidates :
       LET after == appReducer(state, action)
       IN  /\ SameBut(after, state, {"filterState"})
           /\ SameBut(after.filterState, state.filterState, DOMAIN action.payload)
           /\ \A k \in DOMAIN action.payload : after.filterState[k] = action.payload[k]
  /\ SameBut(appReducer(state, Act("SET_CURRENT_PERIOD", env.now)), state, {"currentPeriod"})
  /\ appReducer(state, Act("RESET", IdOnly(0))) = state

\* C29's case: the budget was deleted and a later budget call failed: the
\* budgets and errors.budgets changed, the other lists, messages and flags not
C29_Witness ==
  /\ state.budgets = <<>>
  /\ Truthy(state.errors["budgets"])
  /\ \A r \in Optimistic : state.errors[r] = NULL /\ Range(state[r]) = SeedStore[r]
  /\ \A r \in Resources : ~state.isLoading[r]
  /\ \E action \in MutationCandidates : action.type = "DELETE_CATEGORY"

(***************************************************************************)
(* PeriodSelector on its own: a period kind and a reference date are       *)
(* chosen, and the previous and next arrows are pressed; the reference     *)
(* date the presses started from and their directions are kept for         *)
(* inspection.                                                             *)
(***************************************************************************)
MaxPresses == 2

PeriodInit ==
  /\ env = [session |-> "user-1", tz |-> 0, now |-> Noon]
  /\ \E period \in PeriodTypes, d \in ReferenceDates :
       state = DateRangeEffect([initialState(d) EXCEPT !.filterState.period = period], env.tz)
  /\ store = EmptyStore
  /\ calls = <<>>
  /\ load = [pc |-> "done", r |-> "budgets", stage |-> "idle", resp |-> NoResp]
  /\ nextId = FirstFreeId
  /\ dialog = ClosedDialog
  /\ alert = None
  /\ faults = 0
  /\ activeTab = "records"
  /\ view = NoView

Presses == IF view.rendered THEN view.presses ELSE <<>>
Origin == IF view.rendered THEN view.origin ELSE state.currentPeriod

\* the calendar has a year on either side of the reference date
CanPress == Len(Presses) < MaxPresses /\ {state.currentPeriod.y - 1, state.currentPeriod.y + 1} \subseteq Years

\* an arrow of PeriodSelector: the new reference date is dispatched and the
\* date-range effect follows it
Pressed(dir) ==
  DateRangeEffect(appReducer(state, Act("SET_CURRENT_PERIOD",
                    ShiftPeriod(state.currentPeriod, state.filterState.period, dir))), env.tz)

PressPrevious ==
  /\ CanPress
  /\ state' = Pressed(-1)
  /\ view' = [rendered |-> TRUE, tab |-> "period", origin |-> Origin,
              presses |-> Append(Presses, -1)]
  /\ UNCHANGED <<store, calls, load, nextId, env, dialog, alert, faults, activeTab>>

PressNext ==
  /\ CanPress
  /\ state' = Pressed(1)
  /\ view' = [rendered |-> TRUE, tab |-> "period", origin |-> Origin,
              presses |-> Append(Presses, 1)]
  /\ UNCHANGED <<store, calls, load, nextId, env, dialog, alert, faults, activeTab>>

PeriodNext == PressPrevious \/ PressNext

PeriodSpec == PeriodInit /\ [][PeriodNext]_vars

\* C30: previous then next, and next then previous, bring the reference date
\* back to the one the presses started from, for every period kind
C30_PreviousNextRestores ==
  (view.rendered /\ view.presses \in {<<-1, 1>>, <<1, -1>>}) =>
    state.currentPeriod = view.origin

\* on days up to the 28th of a month the two presses do restore the date
C30_PreviousNextRestoresEarlyDays ==
  (view.rendered /\ view.presses \in {<<-1, 1>>, <<1, -1>>} /\ view.origin.d <= 28) =>
    state.currentPeriod = view.origin

=============================================================================
